---- MODULE Spec2Model ----
(***************************************************************************)
(* Model of the body-expansion engine of the template code generator       *)
(* (class Generator: generateBodyReplacements / processField and the       *)
(* helpers it calls).                                                      *)
(*                                                                         *)
(* Text is modelled character by character: a JavaScript string is a       *)
(* sequence of one-character strings, so that capitalisation, regular      *)
(* expression replacement, trimming and joining are computed, not assumed. *)
(***************************************************************************)
EXTENDS Integers, Sequences, FiniteSets, TLC

VARIABLES
  bodyObject,        \* the body argument: entries in the order they were inserted
  variableTemplates, \* template.variables (FieldTypeMap): type tag -> snippet
  schemaEnabled,     \* TRUE for the variant that also fills zodSchema
  replacements,      \* the six accumulators of generateBodyReplacements
  allFields,         \* the local list allFields
  stack,             \* pending processField calls, next call first
  pc,                \* "off", "idle", "walk", "returned" or "thrown"
  input,             \* a call of one of the text helpers: its name and arguments
  output,            \* what that call returned, once it has
  cli,               \* the codegen command: process.argv, parsed, place in the code
  earlier,           \* the calls of generateBodyReplacements made before this one
  config,            \* this.config: the templates and the hooks
  calls,             \* the calls of generate: arguments, locals, place in the code
  disk,              \* the template folders and what has been written
  trace              \* hooks invoked, files read, formatted and written, in order

\* the state of generateBodyReplacements
bodyVars == <<bodyObject, variableTemplates, schemaEnabled, replacements, allFields, stack, pc>>

\* the state of a call of a text helper, and of the command line
helperVars == <<input, output, cli>>

\* the state of the caller of generateBodyReplacements
generateVars == <<config, calls, disk, trace>>

callerVars == <<earlier, generateVars>>

vars == <<bodyVars, helperVars, callerVars>>

(***************************************************************************)
(* Bounds of the explored inputs.                                          *)
(***************************************************************************)
MaxNodes == 3   \* keys in a body object, all levels together
MaxDepth == 2   \* levels of groups below the root object

(***************************************************************************)
(* JavaScript strings.                                                     *)
(***************************************************************************)
LowerCaseLetters == <<"a", "b", "c", "d", "e", "f", "g", "h", "i", "j", "k", "l", "m", "n", "o", "p", "q", "r", "s", "t", "u", "v", "w", "x", "y", "z">>
UpperCaseLetters == <<"A", "B", "C", "D", "E", "F", "G", "H", "I", "J", "K", "L", "M", "N", "O", "P", "Q", "R", "S", "T", "U", "V", "W", "X", "Y", "Z">>
DecimalDigits == <<"0", "1", "2", "3", "4", "5", "6", "7", "8", "9">>
WhiteSpace == {" ", "\n", "\t", "\r"}

Range(seq) == {seq[i] : i \in 1..Len(seq)}

IndexIn(c, seq) ==
  IF c \in Range(seq) THEN CHOOSE i \in 1..Len(seq) : seq[i] = c ELSE 0

toUpperCase(str) ==
  [i \in 1..Len(str) |->
     LET n == IndexIn(str[i], LowerCaseLetters)
     IN  IF n = 0 THEN str[i] ELSE UpperCaseLetters[n]]

toLowerCase(str) ==
  [i \in 1..Len(str) |->
     LET n == IndexIn(str[i], UpperCaseLetters)
     IN  IF n = 0 THEN str[i] ELSE LowerCaseLetters[n]]

\* str.charAt(0): the first character, or the empty string
charAt0(str) == IF Len(str) = 0 THEN <<>> ELSE <<str[1]>>

\* str.slice(1)
slice1(str) == IF Len(str) <= 1 THEN <<>> ELSE SubSeq(str, 2, Len(str))

\* the variant of capitalize that forgets the rest of the string
capitalizeFirstOnly(str) == toUpperCase(charAt0(str))

capitalize(str) == toUpperCase(charAt0(str)) \o slice1(str)

toCamelCase(str) == toLowerCase(charAt0(str)) \o slice1(str)

\* str.replace(/([a-z0-9])([A-Z])/g, '$1' + sep + '$2')
RECURSIVE SplitBoundaries(_, _, _)
SplitBoundaries(str, sep, i) ==
  IF i > Len(str) THEN <<>>
  ELSE IF /\ i < Len(str)
          /\ str[i] \in Range(LowerCaseLetters) \cup Range(DecimalDigits)
          /\ str[i + 1] \in Range(UpperCaseLetters)
       THEN <<str[i]>> \o sep \o <<str[i + 1]>> \o SplitBoundaries(str, sep, i + 2)
       ELSE <<str[i]>> \o SplitBoundaries(str, sep, i + 1)

toKebabCase(str) == toLowerCase(SplitBoundaries(str, <<"-">>, 1))

\* the variant of toSnakeCase that turns every hyphen of the kebab form into
\* an underscore
toSnakeCaseOfKebab(str) ==
  LET kebab == toKebabCase(str)
  IN  [i \in 1..Len(kebab) |-> IF kebab[i] = "-" THEN "_" ELSE kebab[i]]

toSnakeCase(str) == toLowerCase(SplitBoundaries(str, <<"_">>, 1))

\* The text String.prototype.replace inserts for one match: in the
\* replacement string "$$" stands for "$", "$&" for the matched text,
\* "$`" for the text before the match and "$'" for the text after it.
\* The patterns used here have no capture group, so "$1".."$99" stay as
\* they are.
RECURSIVE GetSubstitution(_, _, _, _, _)
GetSubstitution(matched, str, position, replacement, i) ==
  IF i > Len(replacement) THEN <<>>
  ELSE IF replacement[i] = "$" /\ i < Len(replacement)
       THEN LET c == replacement[i + 1]
                rest == GetSubstitution(matched, str, position, replacement, i + 2)
            IN  IF c = "$" THEN <<"$">> \o rest
                ELSE IF c = "&" THEN matched \o rest
                ELSE IF c = "`" THEN SubSeq(str, 1, position - 1) \o rest
                ELSE IF c = "'"
                     THEN SubSeq(str, position + Len(matched), Len(str)) \o rest
                ELSE <<"$">> \o GetSubstitution(matched, str, position, replacement, i + 1)
       ELSE <<replacement[i]>>
              \o GetSubstitution(matched, str, position, replacement, i + 1)

RECURSIVE ReplaceFrom(_, _, _, _)
ReplaceFrom(str, pattern, replacement, i) ==
  LET matches == {k \in i..(Len(str) - Len(pattern) + 1) :
                    SubSeq(str, k, k + Len(pattern) - 1) = pattern}
  IN  IF matches = {} THEN SubSeq(str, i, Len(str))
      ELSE LET j == CHOOSE m \in matches : \A n \in matches : m <= n
           IN  SubSeq(str, i, j - 1)
                 \o GetSubstitution(pattern, str, j, replacement, 1)
                 \o ReplaceFrom(str, pattern, replacement, j + Len(pattern))

\* str.replace(/pattern/g, replacement) for a pattern that is literal text
replace(str, pattern, replacement) == ReplaceFrom(str, pattern, replacement, 1)

\* str.trim()
RECURSIVE trimStart(_)
trimStart(str) ==
  IF Len(str) > 0 /\ str[1] \in WhiteSpace THEN trimStart(Tail(str)) ELSE str

RECURSIVE trimEnd(_)
trimEnd(str) ==
  IF Len(str) > 0 /\ str[Len(str)] \in WhiteSpace
  THEN trimEnd(SubSeq(str, 1, Len(str) - 1)) ELSE str

trim(str) == trimEnd(trimStart(str))

\* str.replace(/,/g, '')
dropEveryComma(str) == SelectSeq(str, LAMBDA c : c # ",")

\* str.replace(/,$/, '')
dropFinalComma(str) ==
  IF Len(str) > 0 /\ str[Len(str)] = "," THEN SubSeq(str, 1, Len(str) - 1) ELSE str

\* list.join(sep)
RECURSIVE join(_, _)
join(list, sep) ==
  IF Len(list) = 0 THEN <<>>
  ELSE IF Len(list) = 1 THEN list[1]
  ELSE list[1] \o sep \o join(Tail(list), sep)

\* the text of all elements one after the other
RECURSIVE Concat(_)
Concat(list) == IF Len(list) = 0 THEN <<>> ELSE list[1] \o Concat(Tail(list))

\* replacePlaceholders(text, moduleName): the module-name substitutor
replacePlaceholders(text, moduleName) ==
  replace(replace(replace(replace(replace(replace(replace(text,
    <<"{", "{", "n", "a", "m", "e", "}", "}">>, moduleName),
    <<"{", "{", "N", "a", "m", "e", "}", "}">>, capitalize(moduleName)),
    <<"{", "{", "N", "A", "M", "E", "}", "}">>, toUpperCase(moduleName)),
    <<"{", "{", "n", "a", "m", "e", "-", "k", "e", "b", "a", "b", "}", "}">>, toKebabCase(moduleName)),
    <<"{", "{", "n", "a", "m", "e", "_", "s", "n", "a", "k", "e", "}", "}">>, toSnakeCase(moduleName)),
    <<"{", "{", "n", "a", "m", "e", ".", "c", "a", "m", "e", "l", "}", "}">>, toCamelCase(moduleName)),
    <<"{", "{", "n", "a", "m", "e", ".", "p", "a", "s", "c", "a", "l", "}", "}">>, capitalize(moduleName))

(***************************************************************************)
(* JavaScript values of a body object.  An object keeps its entries in the *)
(* order in which the keys were inserted (for a body given as JSON text:   *)
(* the order in the text).                                                 *)
(***************************************************************************)
StringValue(s) == [t |-> "string", s |-> s, e |-> <<>>, a |-> <<>>]
ObjectValue(e) == [t |-> "object", s |-> <<>>, e |-> e, a |-> <<>>]
ArrayValue(a)  == [t |-> "array",  s |-> <<>>, e |-> <<>>, a |-> a]
NullValue      == [t |-> "null",   s |-> <<>>, e |-> <<>>, a |-> <<>>]

\* typeof value === 'object'
typeofObject(value) == value.t \in {"object", "array", "null"}

\* typeof value === 'object' && value !== null && !Array.isArray(value)
isGroup(value) == typeofObject(value) /\ value.t # "null" /\ value.t # "array"

\* A canonical array index: "0", or decimal digits without a leading zero.
IsArrayIndex(key) ==
  /\ Len(key) \in 1..9
  /\ \A i \in 1..Len(key) : key[i] \in Range(DecimalDigits)
  /\ (Len(key) > 1 => key[1] # "0")

RECURSIVE ToNumber(_)
ToNumber(key) ==
  IF Len(key) = 0 THEN 0
  ELSE 10 * ToNumber(SubSeq(key, 1, Len(key) - 1))
         + (IndexIn(key[Len(key)], DecimalDigits) - 1)

\* the entries whose key is an array index, in ascending numeric order
RECURSIVE IndexEntries(_, _)
IndexEntries(entries, from) ==
  LET at == {i \in 1..Len(entries) :
               IsArrayIndex(entries[i].k) /\ ToNumber(entries[i].k) >= from}
  IN  IF at = {} THEN <<>>
      ELSE LET i == CHOOSE i \in at :
                      \A j \in at : ToNumber(entries[i].k) <= ToNumber(entries[j].k)
           IN  <<entries[i]>> \o IndexEntries(entries, ToNumber(entries[i].k) + 1)

IsNamedEntry(entry) == ~IsArrayIndex(entry.k)

\* Object.entries(value): the keys that are array indices first, in
\* ascending numeric order, then the other keys in insertion order.
ObjectEntries(value) == IndexEntries(value.e, 0) \o SelectSeq(value.e, IsNamedEntry)

\* String(value) of a leaf value used as a property key
ToPropertyKey(value) ==
  IF value.t = "string" THEN value.s
  ELSE IF value.t = "array" THEN join(value.a, <<",">>)
  ELSE <<"n", "u", "l", "l">>

\* the properties every plain object inherits from Object.prototype
ObjectPrototypeKeys ==
  { <<"c", "o", "n", "s", "t", "r", "u", "c", "t", "o", "r">>, <<"t", "o", "S", "t", "r", "i", "n", "g">>, <<"t", "o", "L", "o", "c", "a", "l", "e", "S", "t", "r", "i", "n", "g">>, <<"v", "a", "l", "u", "e", "O", "f">>,
    <<"h", "a", "s", "O", "w", "n", "P", "r", "o", "p", "e", "r", "t", "y">>, <<"i", "s", "P", "r", "o", "t", "o", "t", "y", "p", "e", "O", "f">>, <<"p", "r", "o", "p", "e", "r", "t", "y", "I", "s", "E", "n", "u", "m", "e", "r", "a", "b", "l", "e">>, <<"_", "_", "p", "r", "o", "t", "o", "_", "_">> }

\* variableTemplates[fieldType]: an own snippet, else what the prototype
\* chain holds under that name (a function or object, never a string)
lookup(map, fieldType) ==
  LET key == ToPropertyKey(fieldType)
  IN  IF key \in DOMAIN map THEN [kind |-> "string", s |-> map[key]]
      ELSE IF key \in ObjectPrototypeKeys THEN [kind |-> "function", s |-> <<>>]
      ELSE [kind |-> "undefined", s |-> <<>>]

\* if (template): undefined and the empty string are falsy
truthy(template) == template.kind = "function" \/ (template.kind = "string" /\ template.s # <<>>)

(***************************************************************************)
(* generateNestedDefaults / generateNestedZodSchema                        *)
(***************************************************************************)
\* the variant of generateNestedDefaults that does not descend into groups
generateFlatDefaults(obj) ==
  LET entries == ObjectEntries(obj)
      line(i) == <<" ", " ", " ", " ">> \o entries[i].k \o <<":", " ", "'", "'", ",", "\n">>
  IN  <<"{", "\n">> \o Concat([i \in 1..Len(entries) |-> line(i)]) \o <<" ", " ", "}">>

RECURSIVE generateNestedDefaults(_)
generateNestedDefaults(obj) ==
  LET entries == ObjectEntries(obj)
      line(i) == IF isGroup(entries[i].v)
                 THEN <<" ", " ", " ", " ">> \o entries[i].k \o <<":", " ">>
                        \o generateNestedDefaults(entries[i].v) \o <<",", "\n">>
                 ELSE <<" ", " ", " ", " ">> \o entries[i].k \o <<":", " ", "'", "'", ",", "\n">>
  IN  <<"{", "\n">> \o Concat([i \in 1..Len(entries) |-> line(i)]) \o <<" ", " ", "}">>

\* the variant of generateNestedZodSchema that does not descend into groups
generateFlatZodSchema(obj) ==
  LET entries == ObjectEntries(obj)
      line(i) == <<" ", " ", " ", " ">> \o entries[i].k \o <<":", " ", "z", ".", "s", "t", "r", "i", "n", "g", "(", ")", ",", "\n">>
  IN  <<"{", "\n">> \o Concat([i \in 1..Len(entries) |-> line(i)]) \o <<" ", " ", "}">>

RECURSIVE generateNestedZodSchema(_)
generateNestedZodSchema(obj) ==
  LET entries == ObjectEntries(obj)
      line(i) == IF isGroup(entries[i].v)
                 THEN <<" ", " ", " ", " ">> \o entries[i].k \o <<":", " ", "z", ".", "o", "b", "j", "e", "c", "t", "(">>
                        \o generateNestedZodSchema(entries[i].v) \o <<")", ",", "\n">>
                 ELSE <<" ", " ", " ", " ">> \o entries[i].k \o <<":", " ", "z", ".", "s", "t", "r", "i", "n", "g", "(", ")", ",", "\n">>
  IN  <<"{", "\n">> \o Concat([i \in 1..Len(entries) |-> line(i)]) \o <<" ", " ", "}">>

\* the interface declaration processField builds for a group
interfaceContent(key, value) ==
  LET entries == ObjectEntries(value)
      line(i) == IF isGroup(entries[i].v)
                 THEN <<" ", " ">> \o entries[i].k \o <<":", " ">> \o capitalize(entries[i].k) \o <<";", "\n">>
                 ELSE <<" ", " ">> \o entries[i].k \o <<":", " ", "s", "t", "r", "i", "n", "g", ";", "\n">>
  IN  <<"e", "x", "p", "o", "r", "t", " ", "i", "n", "t", "e", "r", "f", "a", "c", "e", " ">> \o capitalize(key) \o <<" ", "{", "\n">>
        \o Concat([i \in 1..Len(entries) |-> line(i)]) \o <<"}", "\n", "\n">>

\* the variant of formItem that runs the module-name substitutor on the snippet
formItemAllPlaceholders(template, key, fullPath) ==
  replace(replacePlaceholders(template, key), <<"{", "{", "f", "u", "l", "l", "P", "a", "t", "h", "}", "}">>, fullPath)

\* the snippet of a leaf with its three field placeholders replaced
formItem(template, key, fullPath) ==
  replace(replace(replace(template, <<"{", "{", "n", "a", "m", "e", "}", "}">>, key),
                  <<"{", "{", "N", "a", "m", "e", "}", "}">>, capitalize(key)),
          <<"{", "{", "f", "u", "l", "l", "P", "a", "t", "h", "}", "}">>, fullPath)

\* the variant of fullPath that forgets the prefix
fullPathKeyOnly(prefix, key) == key

\* prefix ? `${prefix}.${key}` : key
fullPathOf(prefix, key) == IF prefix # <<>> THEN prefix \o <<".">> \o key ELSE key

\* the variant of the root test that takes every leaf for a root leaf
everyPrefixIsRoot(prefix) == TRUE

\* !prefix
notPrefix(prefix) == prefix = <<>>


\* one pending call processField(key, value, prefix)
Call(key, value, prefix) == [key |-> key, value |-> value, prefix |-> prefix]

\* the calls entries.forEach(([k, v]) => processField(k, v, prefix)) makes
Calls(entries, prefix) ==
  [i \in 1..Len(entries) |-> Call(entries[i].k, entries[i].v, prefix)]

EmptyReplacements ==
  [formItems |-> <<>>, types |-> <<>>, defaultValues |-> <<>>,
   fields |-> <<>>, interfaces |-> <<>>, zodSchema |-> <<>>]

(***************************************************************************)
(* generateBodyReplacements, one processField call per step.               *)
(***************************************************************************)
\* the variant of the entry that goes on with the accumulators as they are
EnterWithUsedAccumulators ==
  /\ pc = "idle"
  /\ stack' = Calls(ObjectEntries(bodyObject), <<>>)
  /\ pc' = "walk"
  /\ UNCHANGED <<bodyObject, variableTemplates, schemaEnabled, replacements, allFields>>
  /\ UNCHANGED <<helperVars, callerVars>>

\* entry: fresh accumulators, then Object.entries(bodyObject).forEach(...)
Enter ==
  /\ pc = "idle"
  /\ replacements' = EmptyReplacements
  /\ allFields' = <<>>
  /\ stack' = Calls(ObjectEntries(bodyObject), <<>>)
  /\ pc' = "walk"
  /\ UNCHANGED <<bodyObject, variableTemplates, schemaEnabled>>
  /\ UNCHANGED <<helperVars, callerVars>>

\* processField on a group: interface, types line, nested default (and
\* schema) literal, then processField on every child with prefix fullPath
ProcessGroup ==
  /\ pc = "walk"
  /\ stack # <<>>
  /\ isGroup(Head(stack).value)
  /\ LET key == Head(stack).key
         value == Head(stack).value
         fullPath == fullPathOf(Head(stack).prefix, key)
     IN  /\ replacements' =
               [replacements EXCEPT
                  !.interfaces = @ \o interfaceContent(key, value),
                  !.types = @ \o <<" ", " ">> \o key \o <<":", " ">> \o capitalize(key) \o <<";", "\n">>,
                  !.defaultValues =
                     @ \o <<" ", " ">> \o key \o <<":", " ">> \o generateNestedDefaults(value) \o <<",", "\n">>,
                  !.zodSchema =
                     IF schemaEnabled
                     THEN @ \o <<" ", " ">> \o key \o <<":", " ", "z", ".", "o", "b", "j", "e", "c", "t", "(">>
                            \o generateNestedZodSchema(value) \o <<")", ",", "\n">>
                     ELSE @]
         /\ stack' = Calls(ObjectEntries(value), fullPath) \o Tail(stack)
  /\ UNCHANGED <<bodyObject, variableTemplates, schemaEnabled, allFields, pc>>
  /\ UNCHANGED <<helperVars, callerVars>>

\* processField on anything else: the snippet of its tag (template.replace
\* throws a TypeError when the looked-up value is not a string), the
\* root-level types/defaultValues lines, the entry of allFields
ProcessLeaf ==
  /\ pc = "walk"
  /\ stack # <<>>
  /\ ~isGroup(Head(stack).value)
  /\ LET key == Head(stack).key
         prefix == Head(stack).prefix
         fullPath == fullPathOf(prefix, key)
         template == lookup(variableTemplates, Head(stack).value)
     IN  IF truthy(template) /\ template.kind # "string"
         THEN /\ pc' = "thrown"
              /\ UNCHANGED <<replacements, allFields, stack>>
         ELSE /\ replacements' =
                    [replacements EXCEPT
                       !.formItems =
                          IF truthy(template)
                          THEN @ \o formItem(template.s, key, fullPath) \o <<"\n">>
                          ELSE @,
                       !.types =
                          IF notPrefix(prefix) THEN @ \o <<" ", " ">> \o key \o <<":", " ", "s", "t", "r", "i", "n", "g", ";", "\n">> ELSE @,
                       !.defaultValues =
                          IF notPrefix(prefix) THEN @ \o <<" ", " ">> \o key \o <<":", " ", "'", "'", ",", "\n">> ELSE @]
              /\ allFields' = Append(allFields, <<"'">> \o fullPath \o <<"'">>)
              /\ stack' = Tail(stack)
              /\ pc' = pc
  /\ UNCHANGED <<bodyObject, variableTemplates, schemaEnabled>>
  /\ UNCHANGED <<helperVars, callerVars>>

\* after the traversal: fields joined, defaultValues trimmed and its final
\* comma removed, the accumulators returned
Return ==
  /\ pc = "walk"
  /\ stack = <<>>
  /\ replacements' =
        [replacements EXCEPT
           !.fields = join(allFields, <<",", " ">>),
           !.defaultValues = dropFinalComma(trim(@))]
  /\ pc' = "returned"
  /\ UNCHANGED <<bodyObject, variableTemplates, schemaEnabled, allFields, stack>>
  /\ UNCHANGED <<helperVars, callerVars>>

Next == Enter \/ ProcessGroup \/ ProcessLeaf \/ Return

(***************************************************************************)
(* Inputs.                                                                 *)
(***************************************************************************)
\* the number of keys of a value, all levels together
RECURSIVE Size(_)
Size(value) ==
  IF value.t # "object" THEN 0
  ELSE Len(value.e) + Len(Concat([i \in 1..Len(value.e) |->
                                    [j \in 1..Size(value.e[i].v) |-> j]]))

\* The entry lists of the objects with keys from `keys` (unique within an
\* object, `free` being those still unused in this one), leaves from
\* `leaves`, at most n keys in all and groups nested at most d deep.
RECURSIVE Bodies(_, _, _, _, _)
Bodies(keys, free, leaves, d, n) ==
  {<<>>} \cup
  (IF n = 0 THEN {}
   ELSE UNION { UNION { { <<[k |-> key, v |-> value]>> \o rest :
                            rest \in Bodies(keys, free \ {key}, leaves, d, n - 1 - Size(value)) } :
                        value \in leaves \cup
                          (IF d = 0 THEN {}
                           ELSE {ObjectValue(e) : e \in Bodies(keys, keys, leaves, d - 1, n - 1)}) } :
                key \in free })

\* a FieldTypeMap: two snippets using the field placeholders and the
\* module-name placeholders, and an empty snippet
FieldTypeMap ==
  (<<"i", "n", "p", "u", "t">> :> <<"<", "F", " ", "l", "a", "b", "e", "l", "=", "\"", "{", "{", "N", "a", "m", "e", "}", "}", "\"", " ", "p", "a", "t", "h", "=", "\"", "{", "{", "f", "u", "l", "l", "P", "a", "t", "h", "}", "}", "\"", " ", "i", "d", "=", "\"", "{", "{", "n", "a", "m", "e", "}", "}", "\"", "/", ">">>)
  @@ (<<"s", "e", "l", "e", "c", "t">> :> <<"{", "{", "N", "A", "M", "E", "}", "}", " ", "{", "{", "n", "a", "m", "e", "-", "k", "e", "b", "a", "b", "}", "}", " ", "{", "{", "n", "a", "m", "e", "_", "s", "n", "a", "k", "e", "}", "}", " ", "{", "{", "n", "a", "m", "e", ".", "c", "a", "m", "e", "l", "}", "}", " ", "{", "{", "n", "a", "m", "e", ".", "p", "a", "s", "c", "a", "l", "}", "}">>)
  @@ (<<"n", "o", "n", "e">> :> <<>>)

\* keys: plain, an array index, one holding a replacement pattern
PathKeys == { <<"a", "b">>, <<"1">>, <<"$", "&">> }
PathLeaves == { StringValue(<<"i", "n", "p", "u", "t">>), StringValue(<<"m", "y", "s", "t", "e", "r", "y">>) }

\* leaf values: declared tags, undeclared tags, arrays, null
TagKeys == { <<"a", "b">>, <<"u", "s", "e", "r", "N", "a", "m", "e">> }
TagLeaves ==
  { StringValue(<<"i", "n", "p", "u", "t">>), StringValue(<<"s", "e", "l", "e", "c", "t">>), StringValue(<<"n", "o", "n", "e">>),
    StringValue(<<"t", "o", "S", "t", "r", "i", "n", "g">>), ArrayValue(<<<<"i", "n", "p", "u", "t">>>>), ArrayValue(<<>>), NullValue }

\* keys holding the separator of fullPath
DotKeys == { <<"a", "b">>, <<"a", "b", ".", "a", "b">> }
DotLeaves == { StringValue(<<"i", "n", "p", "u", "t">>) }

\* no call of generate
NoGenerate ==
  /\ config = [templates |-> <<>>, beforeGenerate |-> "absent", afterGenerate |-> "absent"]
  /\ calls = <<>>
  /\ disk = [folders |-> {}, files |-> <<>>, made |-> {}, written |-> <<>>]
  /\ trace = <<>>

\* no text helper is being called
NoInput == [fn |-> "none", text |-> <<>>, moduleName |-> <<>>, replacements |-> <<>>]

NoOutput == [done |-> FALSE, text |-> <<>>]

\* the command line is not in use
NoCli == [at |-> "off", argv |-> <<>>, command |-> <<>>, args |-> <<>>, options |-> <<>>]

BodyObjects ==
  {ObjectValue(e) : e \in Bodies(PathKeys, PathKeys, PathLeaves, MaxDepth, MaxNodes)}
  \cup {ObjectValue(e) : e \in Bodies(TagKeys, TagKeys, TagLeaves, MaxDepth, MaxNodes)}
  \cup {ObjectValue(e) : e \in Bodies(DotKeys, DotKeys, DotLeaves, MaxDepth, MaxNodes)}

Init ==
  /\ bodyObject \in BodyObjects
  /\ variableTemplates = FieldTypeMap
  /\ schemaEnabled \in BOOLEAN
  /\ replacements = EmptyReplacements
  /\ allFields = <<>>
  /\ stack = <<>>
  /\ pc = "idle"
  /\ input = NoInput
  /\ output = NoOutput
  /\ cli = NoCli
  /\ earlier = <<>>
  /\ NoGenerate

Spec == Init /\ [][Next]_vars

(***************************************************************************)
(* What the body object itself says, read off the input without the        *)
(* generator: the children of an object either in the order in which the   *)
(* keys were inserted or in the order the object enumerates them.          *)
(***************************************************************************)
Children(value, inserted) == IF inserted THEN value.e ELSE ObjectEntries(value)

\* the key sequences (root to leaf) of the non-group nodes, depth first
RECURSIVE LeafKeyPaths(_, _, _)
LeafKeyPaths(value, above, inserted) ==
  LET es == Children(value, inserted)
      sub(i) == IF es[i].v.t = "object"
                THEN LeafKeyPaths(es[i].v, Append(above, es[i].k), inserted)
                ELSE <<Append(above, es[i].k)>>
  IN  Concat([i \in 1..Len(es) |-> sub(i)])

\* the group nodes as entries [k, v], a parent before the groups inside it
RECURSIVE GroupNodes(_, _)
GroupNodes(value, inserted) ==
  LET es == Children(value, inserted)
      sub(i) == IF es[i].v.t = "object"
                THEN <<es[i]>> \o GroupNodes(es[i].v, inserted)
                ELSE <<>>
  IN  Concat([i \in 1..Len(es) |-> sub(i)])

\* the non-group nodes as entries [k, v], depth first
RECURSIVE LeafNodes(_)
LeafNodes(value) ==
  LET es == ObjectEntries(value)
      sub(i) == IF es[i].v.t = "object" THEN LeafNodes(es[i].v) ELSE <<es[i]>>
  IN  Concat([i \in 1..Len(es) |-> sub(i)])

Quoted(path) == <<"'">> \o path \o <<"'">>

DottedPath(keys) == join(keys, <<".">>)

FirstUpper(key) ==
  IF key = <<>> THEN key ELSE toUpperCase(<<key[1]>>) \o Tail(key)

\* the flat field list of a body: the quoted dotted paths of its leaves
FieldList(value, inserted) ==
  LET paths == LeafKeyPaths(value, <<>>, inserted)
  IN  join([i \in 1..Len(paths) |-> Quoted(DottedPath(paths[i]))], <<",", " ">>)

\* the declaration of one group: a member line per child
Declaration(entry, inserted) ==
  LET es == Children(entry.v, inserted)
      member(i) == <<" ", " ">> \o es[i].k \o <<":", " ">>
                     \o (IF es[i].v.t = "object" THEN FirstUpper(es[i].k) ELSE <<"s", "t", "r", "i", "n", "g">>)
                     \o <<";", "\n">>
  IN  <<"e", "x", "p", "o", "r", "t", " ", "i", "n", "t", "e", "r", "f", "a", "c", "e", " ">> \o FirstUpper(entry.k) \o <<" ", "{", "\n">>
        \o Concat([i \in 1..Len(es) |-> member(i)]) \o <<"}", "\n", "\n">>

Declarations(value, inserted) ==
  LET gs == GroupNodes(value, inserted)
  IN  Concat([i \in 1..Len(gs) |-> Declaration(gs[i], inserted)])

\* str contains part as a run of consecutive characters
Contains(str, part) ==
  \E i \in 1..(Len(str) - Len(part) + 1) : SubSeq(str, i, i + Len(part) - 1) = part

Returned == pc = "returned"

(***************************************************************************)
(* C1  Order preservation: what generateBodyReplacements returns lists the *)
(* leaves (fields) and the groups with their member lines (interfaces) in  *)
(* the order in which the keys were inserted in the body object, whatever  *)
(* the keys are, keys that look like non-negative integers included.       *)
(***************************************************************************)
C1_InsertionOrderKept ==
  Returned =>
    /\ replacements.fields = FieldList(bodyObject, TRUE)
    /\ replacements.interfaces = Declarations(bodyObject, TRUE)

(***************************************************************************)
(* C2  fields is exactly the comma-space-joined list of the single-quoted  *)
(* dotted path of every leaf, each leaf once, depth first in the order the *)
(* object enumerates its keys, at any depth and whatever the type tag;     *)
(* groups never appear in it.                                              *)
(***************************************************************************)
C2_FieldsListsEveryLeaf ==
  Returned => replacements.fields = FieldList(bodyObject, FALSE)

\* a returned run over a body with a nested leaf, an undeclared tag and a group
C2_Witness ==
  /\ Returned
  /\ \E i \in 1..Len(LeafKeyPaths(bodyObject, <<>>, FALSE)) :
        Len(LeafKeyPaths(bodyObject, <<>>, FALSE)[i]) >= 2
  /\ \E i \in 1..Len(LeafNodes(bodyObject)) :
        LeafNodes(bodyObject)[i].v = StringValue(<<"m", "y", "s", "t", "e", "r", "y">>)
  /\ Len(LeafNodes(bodyObject)) >= 2
  /\ replacements.fields # <<>>

(***************************************************************************)
(* Steps of the traversal, as the claims speak of them.                    *)
(***************************************************************************)
\* the next processField call is on a non-group node
AtLeaf == pc = "walk" /\ stack # <<>> /\ Head(stack).value.t # "object"

\* the next processField call is on a group
AtGroup == pc = "walk" /\ stack # <<>> /\ Head(stack).value.t = "object"

\* a step in which the call on a non-group node ran to its end
LeafDone == AtLeaf /\ pc' = "walk" /\ stack' = Tail(stack)

\* the snippet declared for the tag of the node the next call is on
HasSnippet ==
  /\ Head(stack).value.t = "string"
  /\ Head(stack).value.s \in DOMAIN variableTemplates

Snippet == variableTemplates[Head(stack).value.s]

\* every occurrence of part in str replaced by text taken as it is
RECURSIVE Substitute(_, _, _)
Substitute(str, part, text) ==
  IF Len(str) = 0 THEN <<>>
  ELSE IF Len(part) <= Len(str) /\ SubSeq(str, 1, Len(part)) = part
       THEN text \o Substitute(SubSeq(str, Len(part) + 1, Len(str)), part, text)
       ELSE <<str[1]>> \o Substitute(Tail(str), part, text)

\* the number of occurrences of part in str
Count(str, part) ==
  Cardinality({i \in 1..(Len(str) - Len(part) + 1) :
                 SubSeq(str, i, i + Len(part) - 1) = part})

\* the dotted path the field list records for the leaf just processed
LastFieldPath(list) ==
  LET entry == list[Len(list)] IN SubSeq(entry, 2, Len(entry) - 1)

(***************************************************************************)
(* C3  Path identity: for every leaf whose snippet contains {{fullPath}},  *)
(* the text put in place of {{fullPath}} in formItems is character for     *)
(* character the dotted path that the leaf's fields entry holds in quotes, *)
(* for any key string.                                                     *)
(***************************************************************************)
C3_PathIdentity ==
  [][ (LeafDone /\ HasSnippet /\ Contains(Snippet, <<"{", "{", "f", "u", "l", "l", "P", "a", "t", "h", "}", "}">>)) =>
        LET key == Head(stack).key
            named == replace(replace(Snippet, <<"{", "{", "n", "a", "m", "e", "}", "}">>, key),
                             <<"{", "{", "N", "a", "m", "e", "}", "}">>, capitalize(key))
        IN  replacements'.formItems =
              replacements.formItems
                \o Substitute(named, <<"{", "{", "f", "u", "l", "l", "P", "a", "t", "h", "}", "}">>, LastFieldPath(allFields'))
                \o <<"\n">> ]_vars

(***************************************************************************)
(* C4  Root/nested asymmetry for leaves: a completed call on a root leaf   *)
(* (empty prefix) adds exactly the line "key: string;" to types and the    *)
(* entry "key: ''," to defaultValues; a completed call on a nested leaf    *)
(* adds nothing to either, and on return the key of every nested leaf is a *)
(* member line of an interface declaration and an entry of a nested        *)
(* default literal.                                                        *)
(***************************************************************************)
C4_RootNestedAsymmetry ==
  /\ [][ LeafDone =>
           LET key == Head(stack).key
           IN  IF Head(stack).prefix = <<>>
               THEN /\ replacements'.types =
                         replacements.types \o <<" ", " ">> \o key \o <<":", " ", "s", "t", "r", "i", "n", "g", ";", "\n">>
                    /\ replacements'.defaultValues =
                         replacements.defaultValues \o <<" ", " ">> \o key \o <<":", " ", "'", "'", ",", "\n">>
               ELSE /\ replacements'.types = replacements.types
                    /\ replacements'.defaultValues = replacements.defaultValues ]_vars
  /\ [](Returned =>
          \A i \in 1..Len(LeafKeyPaths(bodyObject, <<>>, FALSE)) :
             LET keys == LeafKeyPaths(bodyObject, <<>>, FALSE)[i]
                 key == keys[Len(keys)]
             IN  Len(keys) >= 2 =>
                   /\ Contains(replacements.interfaces,
                               <<"e", "x", "p", "o", "r", "t", " ", "i", "n", "t", "e", "r", "f", "a", "c", "e", " ">> \o FirstUpper(keys[Len(keys) - 1]) \o <<" ", "{", "\n">>)
                   /\ Contains(replacements.interfaces, <<" ", " ">> \o key \o <<":", " ", "s", "t", "r", "i", "n", "g", ";", "\n">>)
                   /\ Contains(replacements.defaultValues, <<" ", " ", " ", " ">> \o key \o <<":", " ", "'", "'", ",", "\n">>))

\* a returned run over a body with a root leaf and a nested leaf
C4_Witness ==
  /\ Returned
  /\ \E i \in 1..Len(LeafKeyPaths(bodyObject, <<>>, FALSE)) :
        Len(LeafKeyPaths(bodyObject, <<>>, FALSE)[i]) = 1
  /\ \E i \in 1..Len(LeafKeyPaths(bodyObject, <<>>, FALSE)) :
        Len(LeafKeyPaths(bodyObject, <<>>, FALSE)[i]) = 2
  /\ replacements.types # <<>>
  /\ replacements.interfaces # <<>>

(***************************************************************************)
(* C5  types holds exactly one member line per root-level key and          *)
(* defaultValues exactly one top-level entry per root-level key: a group   *)
(* inside a group adds no line of its own to either.                       *)
(***************************************************************************)
RootTypes(value) ==
  LET es == ObjectEntries(value)
      line(i) == <<" ", " ">> \o es[i].k \o <<":", " ">>
                   \o (IF es[i].v.t = "object" THEN FirstUpper(es[i].k) ELSE <<"s", "t", "r", "i", "n", "g">>)
                   \o <<";", "\n">>
  IN  Concat([i \in 1..Len(es) |-> line(i)])

RootDefaults(value) ==
  LET es == ObjectEntries(value)
      line(i) == <<" ", " ">> \o es[i].k \o <<":", " ">>
                   \o (IF es[i].v.t = "object" THEN generateNestedDefaults(es[i].v)
                       ELSE <<"'", "'">>)
                   \o <<",", "\n">>
  IN  Concat([i \in 1..Len(es) |-> line(i)])

C5_OneLinePerRootKey ==
  Returned =>
    /\ replacements.types = RootTypes(bodyObject)
    /\ replacements.defaultValues = dropFinalComma(trim(RootDefaults(bodyObject)))

(***************************************************************************)
(* C6  formItems is, in traversal order, one rendered snippet and one      *)
(* newline for every leaf whose tag is a declared key of the FieldTypeMap  *)
(* (the empty snippet included) and nothing for any other leaf; a leaf     *)
(* with an undeclared tag raises no error.                                 *)
(***************************************************************************)
AllTagsAreStrings(value) ==
  \A i \in 1..Len(LeafNodes(value)) : LeafNodes(value)[i].v.t = "string"

RenderedSnippets(value) ==
  LET leaves == LeafNodes(value)
      paths == LeafKeyPaths(value, <<>>, FALSE)
      item(i) == IF leaves[i].v.s \in DOMAIN variableTemplates
                 THEN formItem(variableTemplates[leaves[i].v.s], leaves[i].k,
                               DottedPath(paths[i])) \o <<"\n">>
                 ELSE <<>>
  IN  Concat([i \in 1..Len(leaves) |-> item(i)])

C6_UndeclaredTagsTolerated ==
  /\ pc # "thrown"
  /\ (Returned /\ AllTagsAreStrings(bodyObject)) =>
        replacements.formItems = RenderedSnippets(bodyObject)

(***************************************************************************)
(* C7  An array-valued node, whatever it holds, is handled as a leaf that  *)
(* emits nothing to formItems: the call raises no error, leaves formItems  *)
(* as it is and appends the quoted fullPath to the field list.             *)
(***************************************************************************)
C7_ArrayIsSilentLeaf ==
  [][ (AtLeaf /\ Head(stack).value.t = "array") =>
        /\ pc' = "walk"
        /\ replacements'.formItems = replacements.formItems
        /\ allFields' =
             Append(allFields,
                    Quoted(IF Head(stack).prefix = <<>> THEN Head(stack).key
                           ELSE Head(stack).prefix \o <<".">> \o Head(stack).key)) ]_vars

(***************************************************************************)
(* C8  (as claimed) The per-field snippet goes through the module-name     *)
(* substitutor with the field key as the token - all seven module          *)
(* placeholders replaced by the casing transforms of the key - and then    *)
(* {{fullPath}} is replaced by the dotted path.                            *)
(***************************************************************************)
C8_SnippetUsesModuleSubstitutor ==
  [][ (LeafDone /\ HasSnippet /\ Snippet # <<>>) =>
        replacements'.formItems =
          replacements.formItems
            \o replace(replacePlaceholders(Snippet, Head(stack).key),
                       <<"{", "{", "f", "u", "l", "l", "P", "a", "t", "h", "}", "}">>, LastFieldPath(allFields'))
            \o <<"\n">> ]_vars

(***************************************************************************)
(* C8  (amended) The per-field snippet gets three global replacements      *)
(* only: {{name}} by the key, {{Name}} by the capitalised key, {{fullPath}}*)
(* by the dotted path.  {{NAME}}, {{name-kebab}}, {{name_snake}},          *)
(* {{name.camel}} and {{name.pascal}} are not substituted: every           *)
(* occurrence in the snippet is still in the rendered text.                *)
(***************************************************************************)
OtherModulePlaceholders ==
  { <<"{", "{", "N", "A", "M", "E", "}", "}">>, <<"{", "{", "n", "a", "m", "e", "-", "k", "e", "b", "a", "b", "}", "}">>, <<"{", "{", "n", "a", "m", "e", "_", "s", "n", "a", "k", "e", "}", "}">>, <<"{", "{", "n", "a", "m", "e", ".", "c", "a", "m", "e", "l", "}", "}">>, <<"{", "{", "n", "a", "m", "e", ".", "p", "a", "s", "c", "a", "l", "}", "}">> }

C8_SnippetKeepsOtherPlaceholders ==
  [][ (LeafDone /\ HasSnippet /\ Snippet # <<>>) =>
        LET key == Head(stack).key
            rendered == replace(replace(replace(Snippet, <<"{", "{", "n", "a", "m", "e", "}", "}">>, key),
                                        <<"{", "{", "N", "a", "m", "e", "}", "}">>, capitalize(key)),
                                <<"{", "{", "f", "u", "l", "l", "P", "a", "t", "h", "}", "}">>, LastFieldPath(allFields'))
        IN  /\ replacements'.formItems = replacements.formItems \o rendered \o <<"\n">>
            /\ \A p \in OtherModulePlaceholders :
                  Count(SubSeq(replacements'.formItems,
                               Len(replacements.formItems) + 1,
                               Len(replacements'.formItems)), p)
                    >= Count(Snippet, p) ]_vars

\* a snippet holding the other module placeholders has been rendered for a
\* key on which the casing transforms differ
C8_Witness ==
  /\ pc = "walk"
  /\ Contains(replacements.formItems, <<"{", "{", "n", "a", "m", "e", "-", "k", "e", "b", "a", "b", "}", "}">>)
  /\ Contains(replacements.formItems, <<"{", "{", "N", "A", "M", "E", "}", "}">>)
  /\ \E i \in 1..Len(allFields) : allFields[i] = Quoted(<<"u", "s", "e", "r", "N", "a", "m", "e">>)

(***************************************************************************)
(* C9  For every group at any depth exactly one declaration                *)
(* "export interface <Capitalised key> { ... }" is in interfaces, a parent *)
(* before the groups inside it, with one member line per immediate child   *)
(* in the order the object enumerates them: "child: <Capitalised child>;"  *)
(* for a group child, "child: string;" for any other; an empty group has   *)
(* no member line.                                                         *)
(***************************************************************************)
C9_OneDeclarationPerGroup ==
  Returned => replacements.interfaces = Declarations(bodyObject, FALSE)

\* a returned run over a body with a group inside a group, an empty group
\* and a group holding a leaf
C9_Witness ==
  /\ Returned
  /\ \E i \in 1..Len(GroupNodes(bodyObject, FALSE)) :
        LET g == GroupNodes(bodyObject, FALSE)[i].v
        IN  \E j \in 1..Len(g.e) : g.e[j].v.t = "object" /\ g.e[j].v.e = <<>>
  /\ \E i \in 1..Len(GroupNodes(bodyObject, FALSE)) :
        LET g == GroupNodes(bodyObject, FALSE)[i].v
        IN  \E j \in 1..Len(g.e) : g.e[j].v.t # "object"
  /\ Contains(replacements.interfaces, <<"e", "x", "p", "o", "r", "t", " ", "i", "n", "t", "e", "r", "f", "a", "c", "e", " ", "A", "b", " ", "{", "\n">>)

(***************************************************************************)
(* Reading a nested default literal back: its lines, and the nodes they    *)
(* describe (key sequence from the literal's own root, leaf or group).     *)
(***************************************************************************)
RECURSIVE SplitLines(_)
SplitLines(text) ==
  IF "\n" \notin Range(text) THEN <<text>>
  ELSE LET n == CHOOSE i \in 1..Len(text) :
                   text[i] = "\n" /\ \A j \in 1..(i - 1) : text[j] # "\n"
       IN  <<SubSeq(text, 1, n - 1)>> \o SplitLines(SubSeq(text, n + 1, Len(text)))

StartsWith(str, part) == Len(part) <= Len(str) /\ SubSeq(str, 1, Len(part)) = part

EndsWith(str, part) ==
  Len(part) <= Len(str) /\ SubSeq(str, Len(str) - Len(part) + 1, Len(str)) = part

Between(str, before, after) == SubSeq(str, Len(before) + 1, Len(str) - Len(after))

Node(path, leaf) == [path |-> path, leaf |-> leaf]

RECURSIVE LiteralNodes(_, _, _)
LiteralNodes(lines, i, above) ==
  IF i > Len(lines) THEN <<>>
  ELSE LET ln == lines[i]
       IN  IF (ln = <<" ", " ", "}", ",">> \/ ln = <<" ", " ", "}">>) /\ above # <<>>
           THEN LiteralNodes(lines, i + 1, SubSeq(above, 1, Len(above) - 1))
           ELSE IF StartsWith(ln, <<" ", " ", " ", " ">>) /\ EndsWith(ln, <<":", " ", "'", "'", ",">>)
           THEN <<Node(Append(above, Between(ln, <<" ", " ", " ", " ">>, <<":", " ", "'", "'", ",">>)), TRUE)>>
                  \o LiteralNodes(lines, i + 1, above)
           ELSE IF StartsWith(ln, <<" ", " ", " ", " ">>) /\ EndsWith(ln, <<":", " ", "{">>)
           THEN <<Node(Append(above, Between(ln, <<" ", " ", " ", " ">>, <<":", " ", "{">>)), FALSE)>>
                  \o LiteralNodes(lines, i + 1, Append(above, Between(ln, <<" ", " ", " ", " ">>, <<":", " ", "{">>)))
           ELSE <<Node(<<>>, FALSE)>> \o LiteralNodes(lines, i + 1, above)

\* the nodes below a group of the body, depth first
RECURSIVE NodesBelow(_, _)
NodesBelow(value, above) ==
  LET es == ObjectEntries(value)
      sub(i) == IF es[i].v.t = "object"
                THEN <<Node(Append(above, es[i].k), FALSE)>>
                       \o NodesBelow(es[i].v, Append(above, es[i].k))
                ELSE <<Node(Append(above, es[i].k), TRUE)>>
  IN  Concat([i \in 1..Len(es) |-> sub(i)])

(***************************************************************************)
(* C10  For every group the entry appended to defaultValues is             *)
(* "key: <literal>," where the literal is an object literal with one entry *)
(* per child in order, every non-group child defaulted to '' and every     *)
(* group child expanded by the same rule: read back, the literal describes *)
(* exactly the nodes below the group, so its leaf paths are the leaf paths *)
(* under the group.                                                        *)
(***************************************************************************)
C10_GroupDefaultLiteral ==
  [][ AtGroup =>
        LET key == Head(stack).key
            before == replacements.defaultValues
            after == replacements'.defaultValues
            added == SubSeq(after, Len(before) + 1, Len(after))
            open == <<" ", " ">> \o key \o <<":", " ">>
            literal == Between(added, open, <<",", "\n">>)
            lines == SplitLines(literal)
        IN  /\ after = before \o added
            /\ StartsWith(added, open)
            /\ EndsWith(added, <<",", "\n">>)
            /\ lines[1] = <<"{">>
            /\ lines[Len(lines)] = <<" ", " ", "}">>
            /\ LiteralNodes(SubSeq(lines, 2, Len(lines) - 1), 1, <<>>)
                 = NodesBelow(Head(stack).value, <<>>) ]_vars

\* the default literal of a group that holds a leaf and a group with a leaf
\* of its own has been appended
C10_Witness ==
  /\ pc = "walk"
  /\ Contains(replacements.defaultValues,
              <<" ", " ", "a", "b", ":", " ", "{", "\n", " ", " ", " ", " ", "u", "s", "e", "r", "N", "a", "m", "e", ":", " ", "{", "\n", " ", " ", " ", " ", "a", "b", ":", " ", "'", "'", ",", "\n", " ", " ", "}", ",", "\n", " ", " ", "}", ",", "\n">>)

(***************************************************************************)
(* C11  defaultValues is finalised once, by the step that ends the         *)
(* traversal: every step of the walk only appends to it, and the step that *)
(* returns turns it into its own text without the surrounding whitespace   *)
(* and without its one final comma, every other comma kept; what comes out *)
(* neither starts nor ends with whitespace and does not end with a comma.  *)
(* That step leaves formItems, types, interfaces and zodSchema as they     *)
(* were and sets fields to the joined field list.                          *)
(***************************************************************************)
AllWhiteSpace(str) == \A i \in 1..Len(str) : str[i] \in WhiteSpace

\* text is str without leading whitespace and without a final comma
\* followed by whitespace
FinalisedFrom(text, str) ==
  IF AllWhiteSpace(str) THEN text = <<>>
  ELSE \E i \in 0..Len(str) :
         /\ AllWhiteSpace(SubSeq(str, 1, i))
         /\ Len(str) >= i + Len(text) + 1
         /\ SubSeq(str, i + 1, i + Len(text)) = text
         /\ str[i + Len(text) + 1] = ","
         /\ AllWhiteSpace(SubSeq(str, i + Len(text) + 2, Len(str)))

C11_DefaultValuesFinalisedOnce ==
  [][ pc = "walk" =>
        LET before == replacements.defaultValues
            after == replacements'.defaultValues
        IN  IF pc' = "returned"
            THEN /\ FinalisedFrom(after, before)
                 /\ Count(after, <<",">>) = (IF before = <<>> THEN 0 ELSE Count(before, <<",">>) - 1)
                 /\ after = <<>> \/ ( /\ after[1] \notin WhiteSpace
                                      /\ after[Len(after)] \notin WhiteSpace
                                      /\ after[Len(after)] # "," )
                 /\ replacements'.formItems = replacements.formItems
                 /\ replacements'.types = replacements.types
                 /\ replacements'.interfaces = replacements.interfaces
                 /\ replacements'.zodSchema = replacements.zodSchema
                 /\ replacements'.fields = join(allFields, <<",", " ">>)
            ELSE /\ StartsWith(after, before)
                 /\ after = <<>> \/ EndsWith(after, <<",", "\n">>) ]_vars

\* a returned defaultValues with a comma between two entries and a comma
\* inside a nested literal
C11_Witness ==
  /\ Returned
  /\ Contains(replacements.defaultValues, <<"'", "'", ",", "\n", " ", " ", "}">>)
  /\ Contains(replacements.defaultValues, <<",", "\n", " ", " ", "a", "b", ":", " ">>)

\* the nodes a schema literal describes, read off its lines
RECURSIVE SchemaNodes(_, _, _)
SchemaNodes(lines, i, above) ==
  IF i > Len(lines) THEN <<>>
  ELSE LET ln == lines[i]
       IN  IF (ln = <<" ", " ", "}", ")", ",">> \/ ln = <<" ", " ", "}">>) /\ above # <<>>
           THEN SchemaNodes(lines, i + 1, SubSeq(above, 1, Len(above) - 1))
           ELSE IF StartsWith(ln, <<" ", " ", " ", " ">>) /\ EndsWith(ln, <<":", " ", "z", ".", "s", "t", "r", "i", "n", "g", "(", ")", ",">>)
           THEN <<Node(Append(above, Between(ln, <<" ", " ", " ", " ">>, <<":", " ", "z", ".", "s", "t", "r", "i", "n", "g", "(", ")", ",">>)), TRUE)>>
                  \o SchemaNodes(lines, i + 1, above)
           ELSE IF StartsWith(ln, <<" ", " ", " ", " ">>) /\ EndsWith(ln, <<":", " ", "z", ".", "o", "b", "j", "e", "c", "t", "(", "{">>)
           THEN <<Node(Append(above, Between(ln, <<" ", " ", " ", " ">>, <<":", " ", "z", ".", "o", "b", "j", "e", "c", "t", "(", "{">>)), FALSE)>>
                  \o SchemaNodes(lines, i + 1, Append(above, Between(ln, <<" ", " ", " ", " ">>, <<":", " ", "z", ".", "o", "b", "j", "e", "c", "t", "(", "{">>)))
           ELSE <<Node(<<>>, TRUE)>> \o SchemaNodes(lines, i + 1, above)

(***************************************************************************)
(* C12  In the variant that fills zodSchema, the step that processes a     *)
(* group appends "key: z.object(<literal>)," to zodSchema and              *)
(* "key: <literal>," to defaultValues, and the two literals describe the   *)
(* same nodes: the same keys in the same order at every level, z.string()  *)
(* where the default literal has '' and a nested z.object where it has a   *)
(* nested literal.  A step that processes a leaf appends nothing to        *)
(* zodSchema, so both accumulators get an entry for the same groups.       *)
(***************************************************************************)
C12_SchemaMirrorsDefaults ==
  [][ (schemaEnabled /\ pc = "walk" /\ stack # <<>>) =>
        LET key == Head(stack).key
            schema == SubSeq(replacements'.zodSchema,
                             Len(replacements.zodSchema) + 1, Len(replacements'.zodSchema))
            default == SubSeq(replacements'.defaultValues,
                              Len(replacements.defaultValues) + 1,
                              Len(replacements'.defaultValues))
            schemaLines == SplitLines(Between(schema, <<" ", " ">> \o key \o <<":", " ", "z", ".", "o", "b", "j", "e", "c", "t", "(">>, <<")", ",", "\n">>))
            defaultLines == SplitLines(Between(default, <<" ", " ">> \o key \o <<":", " ">>, <<",", "\n">>))
        IN  /\ StartsWith(replacements'.zodSchema, replacements.zodSchema)
            /\ IF AtGroup
               THEN /\ StartsWith(schema, <<" ", " ">> \o key \o <<":", " ", "z", ".", "o", "b", "j", "e", "c", "t", "(">>)
                    /\ EndsWith(schema, <<")", ",", "\n">>)
                    /\ StartsWith(default, <<" ", " ">> \o key \o <<":", " ">>)
                    /\ EndsWith(default, <<",", "\n">>)
                    /\ schemaLines[1] = <<"{">>
                    /\ schemaLines[Len(schemaLines)] = <<" ", " ", "}">>
                    /\ Len(schemaLines) = Len(defaultLines)
                    /\ SchemaNodes(SubSeq(schemaLines, 2, Len(schemaLines) - 1), 1, <<>>)
                         = LiteralNodes(SubSeq(defaultLines, 2, Len(defaultLines) - 1), 1, <<>>)
               ELSE schema = <<>> ]_vars

\* the schema literal of a group that holds a group with a leaf of its own
\* has been appended
C12_Witness ==
  /\ schemaEnabled
  /\ pc = "walk"
  /\ Contains(replacements.zodSchema,
              <<" ", " ", "a", "b", ":", " ", "z", ".", "o", "b", "j", "e", "c", "t", "(", "{", "\n", " ", " ", " ", " ", "u", "s", "e", "r", "N", "a", "m", "e", ":", " ", "z", ".", "o", "b", "j", "e", "c", "t", "(", "{", "\n", " ", " ", " ", " ", "a", "b", ":", " ", "z", ".", "s", "t", "r", "i", "n", "g", "(", ")", ",", "\n", " ", " ", "}", ")", ",", "\n", " ", " ", "}", ")", ",", "\n">>)

(***************************************************************************)
(* replaceBodyPlaceholders.  A Record<string, string> is the list of its   *)
(* entries in the order Object.entries gives them (the keys used here are  *)
(* names, never array indices, so that is the order of insertion).         *)
(***************************************************************************)
\* the characters pattern.replace(/[.*+?^${}()|[\]\\]/g, '\\$&') escapes
RegExpSpecials == {".", "*", "+", "?", "^", "$", "{", "}", "(", ")", "|", "[", "]", "\\"}

\* the source text of the regular expression built for a pattern
RECURSIVE escapeRegExp(_)
escapeRegExp(pattern) ==
  IF Len(pattern) = 0 THEN <<>>
  ELSE (IF pattern[1] \in RegExpSpecials THEN <<"\\", pattern[1]>> ELSE <<pattern[1]>>)
         \o escapeRegExp(Tail(pattern))

\* the text a regular expression matches whose source holds only escaped
\* characters and characters that stand for themselves
RECURSIVE RegExpLiteral(_)
RegExpLiteral(source) ==
  IF Len(source) = 0 THEN <<>>
  ELSE IF source[1] = "\\" /\ Len(source) > 1
       THEN <<source[2]>> \o RegExpLiteral(SubSeq(source, 3, Len(source)))
       ELSE <<source[1]>> \o RegExpLiteral(Tail(source))

\* the four spellings of the placeholder of one key
patterns(key) ==
  << <<"{", "{", "b", "o", "d", "y", ":">> \o key \o <<"}", "}">>,
     <<"{", "{", "b", "o", "d", "y", ":", " ">> \o key \o <<"}", "}">>,
     <<"{", "{", " ", "b", "o", "d", "y", ":">> \o key \o <<" ", "}", "}">>,
     <<"{", "{", " ", "b", "o", "d", "y", ":", " ">> \o key \o <<" ", "}", "}">> >>

\* patterns.forEach(pattern => result = result.replace(new RegExp(..., 'g'), value))
RECURSIVE replacePatterns(_, _, _, _)
replacePatterns(result, list, value, i) ==
  IF i > Len(list) THEN result
  ELSE LET replaced == replace(result, RegExpLiteral(escapeRegExp(list[i])), value)
       IN  IF replaced = result
           THEN replacePatterns(result, list, value, i + 1)
           ELSE replacePatterns(replaced, list, value, i + 1)

\* Object.entries(replacements).forEach(([key, value]) => ...)
RECURSIVE replaceEntries(_, _, _)
replaceEntries(result, entries, i) ==
  IF i > Len(entries) THEN result
  ELSE LET replaced == replacePatterns(result, patterns(entries[i].k), entries[i].v, 1)
       IN  IF replaced = result
           THEN replaceEntries(result, entries, i + 1)
           ELSE replaceEntries(replaced, entries, i + 1)

\* the variant of replaceBodyPlaceholders that passes over the keys whose
\* value is empty
replaceFilledPlaceholders(content, entries) ==
  replaceEntries(content, SelectSeq(entries, LAMBDA e : e.v # <<>>), 1)

replaceBodyPlaceholders(content, entries) == replaceEntries(content, entries, 1)

\* the record generateBodyReplacements returns, as the list of its entries
Entries(r) ==
  << [k |-> <<"f", "o", "r", "m", "I", "t", "e", "m", "s">>, v |-> r.formItems],
     [k |-> <<"t", "y", "p", "e", "s">>, v |-> r.types],
     [k |-> <<"d", "e", "f", "a", "u", "l", "t", "V", "a", "l", "u", "e", "s">>, v |-> r.defaultValues],
     [k |-> <<"f", "i", "e", "l", "d", "s">>, v |-> r.fields],
     [k |-> <<"i", "n", "t", "e", "r", "f", "a", "c", "e", "s">>, v |-> r.interfaces],
     [k |-> <<"z", "o", "d", "S", "c", "h", "e", "m", "a">>, v |-> r.zodSchema] >>

(***************************************************************************)
(* Calls of the text helpers, each on arguments of its own.                *)
(***************************************************************************)
MaxTokens == 2   \* pieces a text is put together from
MaxLen == 3      \* characters of a name given to toKebabCase / toSnakeCase

CallReplacePlaceholders ==
  /\ input.fn = "replacePlaceholders"
  /\ ~output.done
  /\ output' = [done |-> TRUE, text |-> replacePlaceholders(input.text, input.moduleName)]
  /\ UNCHANGED <<input, cli, bodyVars, callerVars>>

CallToKebabCase ==
  /\ input.fn = "toKebabCase"
  /\ ~output.done
  /\ output' = [done |-> TRUE, text |-> toKebabCase(input.text)]
  /\ UNCHANGED <<input, cli, bodyVars, callerVars>>

CallToSnakeCase ==
  /\ input.fn = "toSnakeCase"
  /\ ~output.done
  /\ output' = [done |-> TRUE, text |-> toSnakeCase(input.text)]
  /\ UNCHANGED <<input, cli, bodyVars, callerVars>>

CallReplaceBodyPlaceholders ==
  /\ input.fn = "replaceBodyPlaceholders"
  /\ ~output.done
  /\ output' = [done |-> TRUE,
                text |-> replaceBodyPlaceholders(input.text, input.replacements)]
  /\ UNCHANGED <<input, cli, bodyVars, callerVars>>

HelperNext ==
  CallReplacePlaceholders \/ CallToKebabCase \/ CallToSnakeCase
    \/ CallReplaceBodyPlaceholders

\* the texts put together from at most n of the tokens
RECURSIVE Texts(_, _)
Texts(tokens, n) ==
  IF n = 0 THEN {<<>>}
  ELSE LET shorter == Texts(tokens, n - 1)
       IN  shorter \cup {t \o rest : t \in tokens, rest \in shorter}

\* the seven module placeholders, in the order replacePlaceholders takes them
ModulePlaceholders ==
  << <<"{", "{", "n", "a", "m", "e", "}", "}">>, <<"{", "{", "N", "a", "m", "e", "}", "}">>, <<"{", "{", "N", "A", "M", "E", "}", "}">>, <<"{", "{", "n", "a", "m", "e", "-", "k", "e", "b", "a", "b", "}", "}">>, <<"{", "{", "n", "a", "m", "e", "_", "s", "n", "a", "k", "e", "}", "}">>,
     <<"{", "{", "n", "a", "m", "e", ".", "c", "a", "m", "e", "l", "}", "}">>, <<"{", "{", "n", "a", "m", "e", ".", "p", "a", "s", "c", "a", "l", "}", "}">> >>

\* module placeholders, tokens that only look like one, other text
ModuleTokens ==
  Range(ModulePlaceholders)
    \cup { <<"{", "{", " ", "n", "a", "m", "e", " ", "}", "}">>, <<"{", "{", "b", "o", "d", "y", ":", "t", "y", "p", "e", "s", "}", "}">>, <<"m", "y", "-">> }

\* module names: plain ones, ones holding a replacement pattern of
\* String.prototype.replace, one holding placeholder text, the empty name
ModuleNames ==
  { <<"u", "s", "e", "r", "P", "r", "o", "f", "i", "l", "e">>, <<"U", "s", "e", "r", "2", "G", "o">>, <<"a", "$", "$", "b">>, <<"$", "&">>, <<"x", "{", "{", "N", "A", "M", "E", "}", "}">>, <<>> }

\* the characters names given to toKebabCase / toSnakeCase are made of
CaseAlphabet == { <<"a">>, <<"b">>, <<"B">>, <<"C">>, <<"1">>, <<"-">>, <<"_">> }

\* the 24 placeholder spellings
BodyPlaceholders ==
  UNION { Range(patterns(e.k)) : e \in Range(Entries(EmptyReplacements)) }

\* spellings and keys that are none of them
NoBodyPlaceholders ==
  { <<"{", "{", "b", "o", "d", "y", ":", "t", "y", "p", "e", "s", " ", "}", "}">>, <<"{", "{", " ", "b", "o", "d", "y", ":", "t", "y", "p", "e", "s", "}", "}">>, <<"{", "{", " ", "b", "o", "d", "y", " ", ":", " ", "t", "y", "p", "e", "s", " ", "}", "}">>, <<"{", "{", "B", "o", "d", "y", ":", "t", "y", "p", "e", "s", "}", "}">>,
    <<"{", "{", "b", "o", "d", "y", ":", "T", "y", "p", "e", "s", "}", "}">>, <<"{", "{", "b", "o", "d", "y", ":", "o", "t", "h", "e", "r", "}", "}">>, <<"{", "{", "t", "y", "p", "e", "s", "}", "}">> }

\* the pieces longer contents are put together from
BodyTokens ==
  Range(patterns(<<"t", "y", "p", "e", "s">>))
    \cup { <<"{", "{", "b", "o", "d", "y", ":", "f", "o", "r", "m", "I", "t", "e", "m", "s", "}", "}">>, <<"{", "{", " ", "b", "o", "d", "y", ":", " ", "i", "n", "t", "e", "r", "f", "a", "c", "e", "s", " ", "}", "}">>, <<"{", "{", "b", "o", "d", "y", ":", " ", "z", "o", "d", "S", "c", "h", "e", "m", "a", "}", "}">>,
           <<"{", "{", "b", "o", "d", "y", ":", "t", "y", "p", "e", "s", " ", "}", "}">>, <<"{", "{", "b", "o", "d", "y", ":", "o", "t", "h", "e", "r", "}", "}">>, <<"/", "/", " ">> }

BodyContents ==
  Texts(BodyTokens, MaxTokens) \cup BodyPlaceholders \cup NoBodyPlaceholders

\* accumulators: all empty; as generateBodyReplacements leaves them for
\* { ab: 'input' }; holding replacement patterns of String.prototype.replace
\* (a body key "$&", a snippet with "$'"); holding placeholder text
ReplacementRecords ==
  { EmptyReplacements,
    [formItems |-> <<"<", "F", " ", "p", "a", "t", "h", "=", "\"", "a", "b", "\"", "/", ">", "\n">>, types |-> <<" ", " ", "a", "b", ":", " ", "s", "t", "r", "i", "n", "g", ";", "\n">>,
     defaultValues |-> <<"a", "b", ":", " ", "'", "'">>, fields |-> <<"'", "a", "b", "'">>, interfaces |-> <<>>,
     zodSchema |-> <<>>],
    [formItems |-> <<"<", "F", " ", "c", "o", "s", "t", "=", "\"", "$", "'", "\"", "/", ">", "\n">>, types |-> <<" ", " ", "$", "&", ":", " ", "s", "t", "r", "i", "n", "g", ";", "\n">>,
     defaultValues |-> <<"$", "&", ":", " ", "'", "'">>, fields |-> <<"'", "$", "&", "'">>, interfaces |-> <<>>,
     zodSchema |-> <<>>],
    [formItems |-> <<"<", "F", " ", "e", "x", "t", "r", "a", "=", "\"", "{", "{", "b", "o", "d", "y", ":", "t", "y", "p", "e", "s", "}", "}", "\"", "/", ">", "\n">>, types |-> <<" ", " ", "a", "b", ":", " ", "s", "t", "r", "i", "n", "g", ";", "\n">>,
     defaultValues |-> <<"a", "b", ":", " ", "'", "'">>, fields |-> <<"'", "a", "b", "'">>,
     interfaces |-> <<"/", "/", " ", "s", "e", "e", " ", "{", "{", "b", "o", "d", "y", ":", "f", "o", "r", "m", "I", "t", "e", "m", "s", "}", "}", "\n">>, zodSchema |-> <<>>] }

HelperInputs ==
  { [fn |-> "replacePlaceholders", text |-> t, moduleName |-> m, replacements |-> <<>>] :
      t \in Texts(ModuleTokens, MaxTokens), m \in ModuleNames }
  \cup
  { [fn |-> f, text |-> t, moduleName |-> <<>>, replacements |-> <<>>] :
      f \in {"toKebabCase", "toSnakeCase"}, t \in Texts(CaseAlphabet, MaxLen) }
  \cup
  { [fn |-> "replaceBodyPlaceholders", text |-> t, moduleName |-> <<>>,
     replacements |-> Entries(r)] :
      t \in BodyContents, r \in ReplacementRecords }

HelperInit ==
  /\ bodyObject = ObjectValue(<<>>)
  /\ variableTemplates = FieldTypeMap
  /\ schemaEnabled = FALSE
  /\ replacements = EmptyReplacements
  /\ allFields = <<>>
  /\ stack = <<>>
  /\ pc = "off"
  /\ input \in HelperInputs
  /\ output = NoOutput
  /\ cli = NoCli
  /\ earlier = <<>>
  /\ NoGenerate

HelperSpec == HelperInit /\ [][HelperNext]_vars

(***************************************************************************)
(* What the placeholder tables say, read off the text without the          *)
(* generator: every occurrence of a placeholder, left to right, gives way  *)
(* to the text the table has for it, taken as it is.                       *)
(***************************************************************************)
RECURSIVE TextAt(_, _, _, _)
TextAt(str, table, i, j) ==
  IF j > Len(table) THEN [found |-> FALSE, from |-> <<>>, to |-> <<>>]
  ELSE IF /\ i + Len(table[j].from) - 1 <= Len(str)
          /\ SubSeq(str, i, i + Len(table[j].from) - 1) = table[j].from
       THEN [found |-> TRUE, from |-> table[j].from, to |-> table[j].to]
       ELSE TextAt(str, table, i, j + 1)

RECURSIVE SubstituteFrom(_, _, _)
SubstituteFrom(str, table, i) ==
  LET hits == {k \in i..Len(str) : TextAt(str, table, k, 1).found}
  IN  IF hits = {} THEN SubSeq(str, i, Len(str))
      ELSE LET j == CHOOSE m \in hits : \A n \in hits : m <= n
               hit == TextAt(str, table, j, 1)
           IN  SubSeq(str, i, j - 1) \o hit.to
                 \o SubstituteFrom(str, table, j + Len(hit.from))

SubstituteAll(str, table) == SubstituteFrom(str, table, 1)

FirstLower(name) ==
  IF Len(name) = 0 THEN <<>> ELSE toLowerCase(<<name[1]>>) \o Tail(name)

\* the table of module-name placeholders of the README
ModuleTable(name) ==
  << [from |-> <<"{", "{", "n", "a", "m", "e", "}", "}">>, to |-> name],
     [from |-> <<"{", "{", "N", "a", "m", "e", "}", "}">>, to |-> FirstUpper(name)],
     [from |-> <<"{", "{", "N", "A", "M", "E", "}", "}">>, to |-> toUpperCase(name)],
     [from |-> <<"{", "{", "n", "a", "m", "e", "-", "k", "e", "b", "a", "b", "}", "}">>, to |-> toKebabCase(name)],
     [from |-> <<"{", "{", "n", "a", "m", "e", "_", "s", "n", "a", "k", "e", "}", "}">>, to |-> toSnakeCase(name)],
     [from |-> <<"{", "{", "n", "a", "m", "e", ".", "c", "a", "m", "e", "l", "}", "}">>, to |-> FirstLower(name)],
     [from |-> <<"{", "{", "n", "a", "m", "e", ".", "p", "a", "s", "c", "a", "l", "}", "}">>, to |-> FirstUpper(name)] >>

(***************************************************************************)
(* C13  replacePlaceholders(text, moduleName) returns text with every      *)
(* occurrence of the seven module placeholders replaced by the transform   *)
(* of the module name the table gives, inserted as it is whatever the      *)
(* module name, and everything else (other {{...}} tokens, other text)     *)
(* unchanged.                                                              *)
(***************************************************************************)
C13_ModuleNameInsertedLiterally ==
  (input.fn = "replacePlaceholders" /\ output.done)
    => output.text = SubstituteAll(input.text, ModuleTable(input.moduleName))

\* position i of str holds a lower-case letter or digit and position i + 1
\* an upper-case letter
Boundary(str, i) ==
  /\ i < Len(str)
  /\ str[i] \in Range(LowerCaseLetters) \cup Range(DecimalDigits)
  /\ str[i + 1] \in Range(UpperCaseLetters)

\* str lower-cased, with sep after every character at a boundary
Separated(str, sep) ==
  Concat([i \in 1..Len(str) |->
            IF Boundary(str, i) THEN toLowerCase(<<str[i]>>) \o sep
            ELSE toLowerCase(<<str[i]>>)])

\* where the separators put in stand in the result
InsertedAt(str) ==
  { i + Cardinality({j \in 1..i : Boundary(str, j)}) : i \in {j \in 1..Len(str) : Boundary(str, j)} }

RECURSIVE BodyTable(_)
BodyTable(entries) ==
  IF Len(entries) = 0 THEN <<>>
  ELSE LET spellings == patterns(entries[1].k)
       IN  [i \in 1..Len(spellings) |-> [from |-> spellings[i], to |-> entries[1].v]]
             \o BodyTable(Tail(entries))

\* no accumulator holds a "$" or the opening braces of a placeholder
PlainAccumulators(entries) ==
  \A i \in 1..Len(entries) :
    "$" \notin Range(entries[i].v) /\ ~Contains(entries[i].v, <<"{", "{">>)

(***************************************************************************)
(* C15  replaceBodyPlaceholders replaces every occurrence in the content   *)
(* of the four spellings {{body:K}}, {{body: K}}, {{ body:K }} and         *)
(* {{ body: K }} of each of the six keys K, also when the accumulator of K *)
(* is empty (the placeholder then disappears), and leaves every other      *)
(* spelling, every other key and all other text as it was.  (What is put   *)
(* in for accumulators holding "$" or placeholder text is C16.)            *)
(***************************************************************************)
C15_FourSpellingsOfSixKeys ==
  ( /\ input.fn = "replaceBodyPlaceholders"
    /\ output.done
    /\ PlainAccumulators(input.replacements) )
    => output.text = SubstituteAll(input.text, BodyTable(input.replacements))

\* a placeholder of an empty accumulator has been removed and a spelling
\* that is none of the four left in place
C15_Witness ==
  /\ input.fn = "replaceBodyPlaceholders"
  /\ input.replacements = Entries(EmptyReplacements)
  /\ input.text = <<"{", "{", " ", "b", "o", "d", "y", ":", " ", "i", "n", "t", "e", "r", "f", "a", "c", "e", "s", " ", "}", "}", "{", "{", "b", "o", "d", "y", ":", "t", "y", "p", "e", "s", " ", "}", "}">>
  /\ output.done
  /\ output.text = <<"{", "{", "b", "o", "d", "y", ":", "t", "y", "p", "e", "s", " ", "}", "}">>

(***************************************************************************)
(* C16  Whatever the accumulators hold, replaceBodyPlaceholders returns    *)
(* the content with every placeholder occurrence replaced, all at once, by *)
(* the unmodified text of its accumulator.                                 *)
(***************************************************************************)
C16_AccumulatorInsertedVerbatim ==
  (input.fn = "replaceBodyPlaceholders" /\ output.done)
    => output.text = SubstituteAll(input.text, BodyTable(input.replacements))

(***************************************************************************)
(* One call of generateBodyReplacements after the other, as generate makes *)
(* them for one generation run after the other.                            *)
(***************************************************************************)
MaxCalls == 2   \* calls of generateBodyReplacements in a row

\* the call that has just ended: its arguments and what came of it
EndedCall ==
  [bodyObject |-> bodyObject, variableTemplates |-> variableTemplates,
   schemaEnabled |-> schemaEnabled, pc |-> pc,
   replacements |-> IF pc = "returned" THEN replacements ELSE EmptyReplacements]

\* bodies: empty, a leaf, a group with a leaf, a leaf whose tag makes the
\* substitution throw
RepeatBodies ==
  { ObjectValue(<<>>),
    ObjectValue(<<[k |-> <<"a", "b">>, v |-> StringValue(<<"i", "n", "p", "u", "t">>)]>>),
    ObjectValue(<<[k |-> <<"a", "b">>, v |->
                     ObjectValue(<<[k |-> <<"u", "s", "e", "r", "N", "a", "m", "e">>, v |-> StringValue(<<"s", "e", "l", "e", "c", "t">>)]>>)]>>),
    ObjectValue(<<[k |-> <<"a", "b">>, v |-> StringValue(<<"t", "o", "S", "t", "r", "i", "n", "g">>)]>>) }

RepeatFieldTypeMaps ==
  { FieldTypeMap, (<<"i", "n", "p", "u", "t">> :> <<"<", "G", " ", "n", "a", "m", "e", "=", "\"", "{", "{", "n", "a", "m", "e", "}", "}", "\"", "/", ">">>) }

\* the caller takes what the call gave and, later, calls again
CallAgain ==
  /\ pc \in {"returned", "thrown"}
  /\ Len(earlier) < MaxCalls - 1
  /\ earlier' = Append(earlier, EndedCall)
  /\ bodyObject' \in RepeatBodies
  /\ variableTemplates' \in RepeatFieldTypeMaps
  /\ schemaEnabled' \in BOOLEAN
  /\ pc' = "idle"
  /\ UNCHANGED <<replacements, allFields, stack, helperVars, generateVars>>

RepeatNext == Next \/ CallAgain

RepeatInit ==
  /\ bodyObject \in RepeatBodies
  /\ variableTemplates \in RepeatFieldTypeMaps
  /\ schemaEnabled \in BOOLEAN
  /\ replacements = EmptyReplacements
  /\ allFields = <<>>
  /\ stack = <<>>
  /\ pc = "idle"
  /\ input = NoInput
  /\ output = NoOutput
  /\ cli = NoCli
  /\ earlier = <<>>
  /\ NoGenerate

RepeatSpec == RepeatInit /\ [][RepeatNext]_vars

\* the calls that have ended so far
EndedCalls ==
  IF pc \in {"returned", "thrown"} THEN Append(earlier, EndedCall) ELSE earlier

(***************************************************************************)
(* C17  Determinism: any two calls of generateBodyReplacements with the    *)
(* same body object and FieldTypeMap (same variant) end the same way and   *)
(* return the same six accumulators, whatever calls were made before.      *)
(***************************************************************************)
C17_SameInputSameOutput ==
  \A i, j \in 1..Len(EndedCalls) :
    ( /\ EndedCalls[i].bodyObject = EndedCalls[j].bodyObject
      /\ EndedCalls[i].variableTemplates = EndedCalls[j].variableTemplates
      /\ EndedCalls[i].schemaEnabled = EndedCalls[j].schemaEnabled )
    => ( /\ EndedCalls[i].pc = EndedCalls[j].pc
         /\ EndedCalls[i].replacements = EndedCalls[j].replacements )

\* a second call with the arguments of the first has returned, with text
\* in its accumulators
C17_Witness ==
  /\ Len(earlier) = 1
  /\ Returned
  /\ earlier[1].bodyObject = bodyObject
  /\ earlier[1].variableTemplates = variableTemplates
  /\ earlier[1].schemaEnabled = schemaEnabled
  /\ replacements.formItems # <<>>
  /\ replacements.interfaces # <<>>

(***************************************************************************)
(* generate: paths, ignore patterns, formatting.                           *)
(***************************************************************************)
\* the positions of character c in str
Positions(str, c) == {i \in 1..Len(str) : str[i] = c}

Last(set) == CHOOSE m \in set : \A n \in set : n <= m

\* path.dirname(filePath)
dirname(filePath) ==
  IF Positions(filePath, "/") = {} THEN <<".">>
  ELSE SubSeq(filePath, 1, Last(Positions(filePath, "/")) - 1)

\* path.extname(filePath)
extname(filePath) ==
  LET base == IF Positions(filePath, "/") = {} THEN filePath
              ELSE SubSeq(filePath, Last(Positions(filePath, "/")) + 1, Len(filePath))
      dots == Positions(base, ".") \ {1}
  IN  IF dots = {} THEN <<>> ELSE SubSeq(base, Last(dots), Len(base))

\* path.join(dir, file) for a relative file: "./" at the front is dropped
pathJoin(dir, file) ==
  (IF StartsWith(dir, <<".", "/">>) THEN SubSeq(dir, 3, Len(dir)) ELSE dir) \o <<"/">> \o file

\* new RegExp(pattern.replace(/\*/g, '.*')) for a pattern of plain
\* characters, "." and "*": "*" is any run of characters, "." any character
RegExpAtoms(pattern) ==
  [i \in 1..Len(pattern) |->
     [any |-> pattern[i] \in {"*", "."}, star |-> pattern[i] = "*", c |-> pattern[i]]]

RECURSIVE MatchHere(_, _, _, _)
MatchHere(atoms, i, str, pos) ==
  IF i > Len(atoms) THEN TRUE
  ELSE IF atoms[i].star
       THEN \E n \in pos..(Len(str) + 1) :
              /\ \A m \in pos..(n - 1) : str[m] # "\n"
              /\ MatchHere(atoms, i + 1, str, n)
       ELSE /\ pos <= Len(str)
            /\ IF atoms[i].any THEN str[pos] # "\n" ELSE str[pos] = atoms[i].c
            /\ MatchHere(atoms, i + 1, str, pos + 1)

\* regex.test(filePath)
test(atoms, filePath) == \E pos \in 1..(Len(filePath) + 1) : MatchHere(atoms, 1, filePath, pos)

\* shouldIgnore(filePath, patterns)
shouldIgnore(filePath, ignorePatterns) ==
  \E i \in 1..Len(ignorePatterns) : test(RegExpAtoms(ignorePatterns[i]), filePath)

\* .replace(/\n{3,}/g, '\n\n') on the lines of a text: of a run of empty
\* lines one is left
RECURSIVE collapseEmptyLines(_, _)
collapseEmptyLines(lines, i) ==
  IF i > Len(lines) THEN <<>>
  ELSE IF i > 1 /\ lines[i] = <<>> /\ lines[i - 1] = <<>> /\ i < Len(lines)
       THEN collapseEmptyLines(lines, i + 1)
       ELSE <<lines[i]>> \o collapseEmptyLines(lines, i + 1)

\* the basic formatter: line ends trimmed, runs of empty lines collapsed,
\* the text trimmed and ended by one newline
tidy(content) ==
  LET lines == SplitLines(content)
      trimmed == [i \in 1..Len(lines) |-> trimEnd(lines[i])]
  IN  trim(join(collapseEmptyLines(trimmed, 1), <<"\n">>)) \o <<"\n">>

\* formatCode(content, filePath) of the basic generator
formatCode(content, filePath) ==
  IF extname(filePath) \in {<<".", "j", "s">>, <<".", "t", "s">>, <<".", "j", "s", "x">>, <<".", "t", "s", "x">>, <<".", "v", "u", "e">>, <<".", "c", "s", "s">>, <<".", "s", "c", "s", "s">>}
  THEN tidy(content)
  ELSE content

\* what prettier.format does: it returns the formatted text, or it throws
\* and formatCode returns the content, or the failure reaches generate
PrettierOutcomes == { <<"f", "o", "r", "m", "a", "t", "t", "e", "d">>, <<"k", "e", "p", "t">>, <<"f", "a", "i", "l", "e", "d">> }

\* the extensions the Prettier formatter has a parser for
PrettierExtensions ==
  {<<".", "v", "u", "e">>, <<".", "t", "s">>, <<".", "t", "s", "x">>, <<".", "j", "s">>, <<".", "j", "s", "x">>, <<".", "j", "s", "o", "n">>, <<".", "c", "s", "s">>, <<".", "s", "c", "s", "s">>, <<".", "h", "t", "m", "l">>, <<".", "m", "d">>}

(***************************************************************************)
(* generate, one step per action.  A step ends where the code awaits (a    *)
(* hook, a file read or write) or hands over to generateBodyReplacements,  *)
(* whose steps are the actions above.                                      *)
(***************************************************************************)
\* name in this.config.templates: own and inherited properties
hasTemplate(templates, name) == name \in DOMAIN templates \/ name \in ObjectPrototypeKeys

\* what this.config.templates[name] holds under an inherited name: a
\* function or object, which has no path, variables, ignore or hooks
InheritedProperty ==
  [hasPath |-> FALSE, path |-> <<"u", "n", "d", "e", "f", "i", "n", "e", "d">>, output |-> <<>>, needsBody |-> FALSE,
   hasVariables |-> FALSE, variables |-> <<>>, hasIgnore |-> FALSE, ignore |-> <<>>,
   beforeFileGenerate |-> "absent", afterFileGenerate |-> "absent"]

\* this.config.templates[name], for a name that hasTemplate accepts
templateOf(templates, name) ==
  IF name \in DOMAIN templates THEN templates[name] ELSE InheritedProperty

\* a catch block that marks the failure and drops the message
caughtWithoutMessage(result, message) == [result EXCEPT !.success = FALSE]

\* the catch block of generate
caught(result, message) ==
  [result EXCEPT !.success = FALSE, !.errors = Append(@, message)]

\* a generate whose calls may go on while another is inside
\* generateBodyReplacements
AtAnyTime(c, place) ==
  /\ c \in DOMAIN calls
  /\ calls[c].at = place

\* the call c is at the given place and no call is inside
\* generateBodyReplacements (which runs without interruption)
At(c, place) ==
  /\ c \in DOMAIN calls
  /\ calls[c].at = place
  /\ \A d \in DOMAIN calls : calls[d].at # "expanding"

\* call c goes on at the given place
Goto(c, place) == calls' = [calls EXCEPT ![c].at = place]

\* call c throws inside the try block
Throw(c, message) ==
  calls' = [calls EXCEPT ![c].result = caught(@, message), ![c].at = "done"]

\* call c throws null or undefined inside the try block: the catch block
\* reads (error as Error).message of it, which throws out of generate
Reject(c) == calls' = [calls EXCEPT ![c].result.success = FALSE, ![c].at = "rejected"]

\* what a hook of the given kind does to call c, which goes on at the given
\* place if the hook returns
Hook(c, kind, name, place) ==
  IF kind = "throws" THEN Throw(c, name \o <<" ", "f", "a", "i", "l", "e", "d">>)
  ELSE IF kind = "throwsNull" THEN Reject(c)
  ELSE Goto(c, place)

Event(c, op, arg) == [call |-> c, op |-> op, arg |-> arg]

\* fs.writeFile(outputFile, processedContent) of call c
Written(c, outputFile, content) ==
  [call |-> c, op |-> "write", arg |-> outputFile, content |-> content]

\* Object.keys(this.config.templates), in the order of the configuration
getTemplates == << <<"f", "o", "r", "m">>, <<"b", "a", "r", "e">>, <<"g", "o", "n", "e">>, <<"a", "u", "d", "i", "t">> >>

\* the message of the error for a name that hasTemplate rejects
notFound(name) ==
  <<"T", "e", "m", "p", "l", "a", "t", "e", " ", "\"">> \o name \o <<"\"", " ", "n", "o", "t", " ", "f", "o", "u", "n", "d">>
    \o (IF schemaEnabled THEN <<>> ELSE <<".", " ", "A", "v", "a", "i", "l", "a", "b", "l", "e", ":", " ">> \o join(getTemplates, <<",", " ">>))

\* getTemplate / hasTemplate at the top of the try block
GetTemplate(c) ==
  /\ At(c, "start")
  /\ IF ~hasTemplate(config.templates, calls[c].templateName)
     THEN Throw(c, notFound(calls[c].templateName))
     ELSE LET template == templateOf(config.templates, calls[c].templateName)
          IN  calls' = [calls EXCEPT
                          ![c].template = template,
                          ![c].finalOutputPath =
                             IF calls[c].outputPath # <<>> THEN calls[c].outputPath
                             ELSE IF template.output # <<>> THEN template.output
                             ELSE <<".", "/", "s", "r", "c">>,
                          ![c].at = "path"]
  /\ UNCHANGED <<config, disk, trace, earlier, bodyVars, helperVars>>

\* a generate that takes the folder of the template to exist
AssumePath(c) ==
  /\ At(c, "path")
  /\ Goto(c, "before")
  /\ UNCHANGED <<config, disk, trace, earlier, bodyVars, helperVars>>

\* fs.existsSync(templatePath) / await fs.pathExists(templatePath)
CheckPath(c) ==
  /\ At(c, "path")
  /\ IF calls[c].template.hasPath /\ calls[c].template.path \in disk.folders
     THEN Goto(c, "before")
     ELSE Throw(c, <<"T", "e", "m", "p", "l", "a", "t", "e", " ", "p", "a", "t", "h", " ", "n", "o", "t", " ", "f", "o", "u", "n", "d", ":", " ">> \o calls[c].template.path)
  /\ UNCHANGED <<config, disk, trace, earlier, bodyVars, helperVars>>

\* await this.config.hooks.beforeGenerate(...), if there is one
BeforeGenerate(c) ==
  /\ At(c, "before")
  /\ IF config.beforeGenerate = "absent"
     THEN Goto(c, "body") /\ UNCHANGED trace
     ELSE /\ trace' = Append(trace, Event(c, "beforeGenerate", calls[c].templateName))
          /\ Hook(c, config.beforeGenerate, <<"b", "e", "f", "o", "r", "e", "G", "e", "n", "e", "r", "a", "t", "e">>, "body")
  /\ UNCHANGED <<config, disk, earlier, bodyVars, helperVars>>

\* if (bodyObject && template.variables) the call of generateBodyReplacements
CallBody(c) ==
  /\ At(c, "body")
  /\ IF calls[c].hasBody /\ calls[c].template.hasVariables
     THEN /\ bodyObject' = calls[c].bodyObject
          /\ variableTemplates' = calls[c].template.variables
          /\ pc' = "idle"
          /\ Goto(c, "expanding")
     ELSE /\ Goto(c, "list")
          /\ UNCHANGED <<bodyObject, variableTemplates, pc>>
  /\ UNCHANGED <<schemaEnabled, replacements, allFields, stack>>
  /\ UNCHANGED <<config, disk, trace, earlier, helperVars>>

\* generateBodyReplacements has returned: bodyReplacements = its result
TakeBody(c) ==
  /\ c \in DOMAIN calls
  /\ calls[c].at = "expanding"
  /\ pc = "returned"
  /\ calls' = [calls EXCEPT ![c].bodyReplacements = Entries(replacements),
                            ![c].at = "list"]
  /\ pc' = "off"
  /\ UNCHANGED <<bodyObject, variableTemplates, schemaEnabled, replacements, allFields, stack>>
  /\ UNCHANGED <<config, disk, trace, earlier, helperVars>>

\* generateBodyReplacements has thrown: the catch block
CatchBody(c) ==
  /\ c \in DOMAIN calls
  /\ calls[c].at = "expanding"
  /\ pc = "thrown"
  /\ Throw(c, <<"t", "e", "m", "p", "l", "a", "t", "e", ".", "r", "e", "p", "l", "a", "c", "e", " ", "i", "s", " ", "n", "o", "t", " ", "a", " ", "f", "u", "n", "c", "t", "i", "o", "n">>)
  /\ pc' = "off"
  /\ UNCHANGED <<bodyObject, variableTemplates, schemaEnabled, replacements, allFields, stack>>
  /\ UNCHANGED <<config, disk, trace, earlier, helperVars>>

\* getAllFiles(templatePath) / glob.sync(pattern)
ListFiles(c) ==
  /\ At(c, "list")
  /\ calls' = [calls EXCEPT ![c].files = IF calls[c].template.path \in DOMAIN disk.files
                                          THEN disk.files[calls[c].template.path]
                                          ELSE <<>>,
                            ![c].at = "file"]
  /\ UNCHANGED <<config, disk, trace, earlier, bodyVars, helperVars>>

\* top of the loop: the next file is skipped if ignored, else read and its
\* path and content given to replacePlaceholders
NextFile(c) ==
  /\ At(c, "file")
  /\ IF calls[c].files = <<>>
     THEN Goto(c, "after") /\ UNCHANGED trace
     ELSE LET file == Head(calls[c].files)
          IN  IF /\ calls[c].template.hasIgnore
                 /\ shouldIgnore(file.name, calls[c].template.ignore)
              THEN /\ calls' = [calls EXCEPT
                                  ![c].files = Tail(@),
                                  ![c].result.warnings =
                                     Append(@, (IF schemaEnabled
                                                THEN <<"S", "k", "i", "p", "p", "e", "d", " ", "i", "g", "n", "o", "r", "e", "d", " ", "f", "i", "l", "e", ":", " ">>
                                                ELSE <<"S", "k", "i", "p", "p", "e", "d", ":", " ">>) \o file.name)]
                   /\ UNCHANGED trace
              ELSE /\ calls' = [calls EXCEPT
                                  ![c].files = Tail(@),
                                  ![c].processedPath =
                                     replacePlaceholders(file.name, calls[c].moduleName),
                                  ![c].processedContent =
                                     replacePlaceholders(file.content, calls[c].moduleName),
                                  ![c].at = "hook"]
                   /\ trace' = Append(trace, Event(c, "read", file.name))
  /\ UNCHANGED <<config, disk, earlier, bodyVars, helperVars>>

\* await template.hooks.beforeFileGenerate(processedPath, processedContent),
\* in the variant that has file hooks
BeforeFile(c) ==
  /\ At(c, "hook")
  /\ IF ~schemaEnabled \/ calls[c].template.beforeFileGenerate = "absent"
     THEN Goto(c, "expand") /\ UNCHANGED trace
     ELSE /\ trace' = Append(trace, Event(c, "beforeFileGenerate", calls[c].processedPath))
          /\ IF calls[c].template.beforeFileGenerate = "throws"
             THEN Throw(c, <<"b", "e", "f", "o", "r", "e", "F", "i", "l", "e", "G", "e", "n", "e", "r", "a", "t", "e", " ", "f", "a", "i", "l", "e", "d">>)
             ELSE calls' = [calls EXCEPT
                              ![c].processedContent = <<"/", "/", " ", "g", "e", "n", "e", "r", "a", "t", "e", "d", "\n">> \o @,
                              ![c].at = "expand"]
  /\ UNCHANGED <<config, disk, earlier, bodyVars, helperVars>>

\* a generate that gives the expanded content to replacePlaceholders
ExpandFileThenSubstitute(c) ==
  /\ At(c, "expand")
  /\ calls' = [calls EXCEPT
                 ![c].processedContent =
                    replacePlaceholders(
                      IF Len(calls[c].bodyReplacements) > 0
                      THEN replaceBodyPlaceholders(@, calls[c].bodyReplacements)
                      ELSE @,
                      calls[c].moduleName),
                 ![c].at = "format"]
  /\ UNCHANGED <<config, disk, trace, earlier, bodyVars, helperVars>>

\* if (Object.keys(bodyReplacements).length > 0) replaceBodyPlaceholders
ExpandFile(c) ==
  /\ At(c, "expand")
  /\ calls' = [calls EXCEPT
                 ![c].processedContent =
                    IF Len(calls[c].bodyReplacements) > 0
                    THEN replaceBodyPlaceholders(@, calls[c].bodyReplacements)
                    ELSE @,
                 ![c].at = "format"]
  /\ UNCHANGED <<config, disk, trace, earlier, bodyVars, helperVars>>

\* if (shouldFormat && !isDryRun) formatCode in a try block.  The basic
\* formatter cannot fail.  Prettier gives formatted text (taken to be the
\* tidied text) or fails; depending on its version the failure is caught
\* inside formatCode (content kept) or by generate (content kept, warning).
FormatFile(c) ==
  /\ At(c, "format")
  /\ IF ~(calls[c].shouldFormat /\ ~calls[c].isDryRun)
     THEN Goto(c, "write") /\ UNCHANGED trace
     ELSE IF ~schemaEnabled
     THEN /\ calls' = [calls EXCEPT
                         ![c].processedContent = formatCode(@, calls[c].processedPath),
                         ![c].at = "write"]
          /\ UNCHANGED trace
     ELSE IF extname(calls[c].processedPath) \notin PrettierExtensions
     THEN Goto(c, "write") /\ UNCHANGED trace
     ELSE \E outcome \in PrettierOutcomes :
            /\ calls' = [calls EXCEPT
                           ![c].processedContent =
                              IF outcome = <<"f", "o", "r", "m", "a", "t", "t", "e", "d">> THEN tidy(@) ELSE @,
                           ![c].result.warnings =
                              IF outcome = <<"f", "a", "i", "l", "e", "d">>
                              THEN Append(@, <<"C", "o", "u", "l", "d", " ", "n", "o", "t", " ", "f", "o", "r", "m", "a", "t", " ">> \o calls[c].processedPath)
                              ELSE @,
                           ![c].at = "write"]
            /\ trace' = Append(trace, Event(c, "prettier", outcome))
  /\ UNCHANGED <<config, disk, earlier, bodyVars, helperVars>>

\* a generate that writes the file also in a dry run
WriteFileAlways(c) ==
  /\ At(c, "write")
  /\ LET outputFile == pathJoin(calls[c].finalOutputPath, calls[c].processedPath)
     IN  /\ disk' = [disk EXCEPT
                       !.made = @ \cup {dirname(outputFile)},
                       !.written = (outputFile :> calls[c].processedContent) @@ @]
         /\ trace' = Append(trace, Written(c, outputFile, calls[c].processedContent))
         /\ Goto(c, IF calls[c].isDryRun THEN "push" ELSE "written")
  /\ UNCHANGED <<config, earlier, bodyVars, helperVars>>

\* if (!isDryRun) ensureDir(path.dirname(outputFile)) and writeFile
WriteFile(c) ==
  /\ At(c, "write")
  /\ IF calls[c].isDryRun
     THEN Goto(c, "push") /\ UNCHANGED <<disk, trace>>
     ELSE LET outputFile == pathJoin(calls[c].finalOutputPath, calls[c].processedPath)
          IN  /\ disk' = [disk EXCEPT
                            !.made = @ \cup {dirname(outputFile)},
                            !.written = (outputFile :> calls[c].processedContent) @@ @]
              /\ trace' = Append(trace, Written(c, outputFile, calls[c].processedContent))
              /\ Goto(c, "written")
  /\ UNCHANGED <<config, earlier, bodyVars, helperVars>>

\* await template.hooks.afterFileGenerate(outputFile), in the variant that
\* has file hooks
AfterFile(c) ==
  /\ At(c, "written")
  /\ IF ~schemaEnabled \/ calls[c].template.afterFileGenerate = "absent"
     THEN Goto(c, "push") /\ UNCHANGED trace
     ELSE /\ trace' = Append(trace, Event(c, "afterFileGenerate", calls[c].processedPath))
          /\ Hook(c, calls[c].template.afterFileGenerate, <<"a", "f", "t", "e", "r", "F", "i", "l", "e", "G", "e", "n", "e", "r", "a", "t", "e">>, "push")
  /\ UNCHANGED <<config, disk, earlier, bodyVars, helperVars>>

\* a generate that lists only the files it has written
PushFileIfWritten(c) ==
  /\ At(c, "push")
  /\ calls' = [calls EXCEPT ![c].result.files =
                              IF calls[c].isDryRun THEN @ ELSE Append(@, calls[c].processedPath),
                            ![c].at = "file"]
  /\ UNCHANGED <<config, disk, trace, earlier, bodyVars, helperVars>>

\* result.files.push(processedPath), then the next file
PushFile(c) ==
  /\ At(c, "push")
  /\ calls' = [calls EXCEPT ![c].result.files = Append(@, calls[c].processedPath),
                            ![c].at = "file"]
  /\ UNCHANGED <<config, disk, trace, earlier, bodyVars, helperVars>>

\* await this.config.hooks.afterGenerate(..., result), if there is one;
\* then, or from the catch block, return result
AfterGenerate(c) ==
  /\ At(c, "after")
  /\ IF config.afterGenerate = "absent"
     THEN Goto(c, "done") /\ UNCHANGED trace
     ELSE /\ trace' = Append(trace, Event(c, "afterGenerate", calls[c].templateName))
          /\ Hook(c, config.afterGenerate, <<"a", "f", "t", "e", "r", "G", "e", "n", "e", "r", "a", "t", "e">>, "done")
  /\ UNCHANGED <<config, disk, earlier, bodyVars, helperVars>>

GenerateStep(c) ==
  \/ GetTemplate(c) \/ CheckPath(c) \/ BeforeGenerate(c) \/ CallBody(c)
  \/ TakeBody(c) \/ CatchBody(c) \/ ListFiles(c) \/ NextFile(c) \/ BeforeFile(c)
  \/ ExpandFile(c) \/ FormatFile(c) \/ WriteFile(c) \/ AfterFile(c) \/ PushFile(c)
  \/ AfterGenerate(c)

\* the calls of generate there can be at a time
CallIds == {1, 2}

GenerateNext == (\E c \in CallIds : GenerateStep(c)) \/ Next

(***************************************************************************)
(* Inputs of generate: a configuration with four templates, the template  *)
(* folders on disk, the arguments of the call.                             *)
(***************************************************************************)
Templates ==
  (<<"f", "o", "r", "m">> :>
     [hasPath |-> TRUE, path |-> <<"t", "e", "m", "p", "l", "a", "t", "e", "s", "/", "f", "o", "r", "m">>, output |-> <<>>, needsBody |-> TRUE,
      hasVariables |-> TRUE, variables |-> FieldTypeMap,
      hasIgnore |-> TRUE, ignore |-> << <<"*", ".", "m", "d">> >>,
      beforeFileGenerate |-> "returns", afterFileGenerate |-> "returns"])
  @@ (<<"b", "a", "r", "e">> :>
     [hasPath |-> TRUE, path |-> <<"t", "e", "m", "p", "l", "a", "t", "e", "s", "/", "b", "a", "r", "e">>, output |-> <<"o", "u", "t">>, needsBody |-> TRUE,
      hasVariables |-> FALSE, variables |-> <<>>,
      hasIgnore |-> FALSE, ignore |-> <<>>,
      beforeFileGenerate |-> "absent", afterFileGenerate |-> "absent"])
  @@ (<<"g", "o", "n", "e">> :>
     [hasPath |-> TRUE, path |-> <<"t", "e", "m", "p", "l", "a", "t", "e", "s", "/", "g", "o", "n", "e">>, output |-> <<>>, needsBody |-> FALSE,
      hasVariables |-> FALSE, variables |-> <<>>,
      hasIgnore |-> FALSE, ignore |-> <<>>,
      beforeFileGenerate |-> "absent", afterFileGenerate |-> "absent"])
  @@ (<<"a", "u", "d", "i", "t">> :>
     [hasPath |-> TRUE, path |-> <<"t", "e", "m", "p", "l", "a", "t", "e", "s", "/", "b", "a", "r", "e">>, output |-> <<>>, needsBody |-> FALSE,
      hasVariables |-> FALSE, variables |-> <<>>,
      hasIgnore |-> FALSE, ignore |-> <<>>,
      beforeFileGenerate |-> "absent", afterFileGenerate |-> "throws"])

\* the template folders that exist, with their files in the order they are
\* listed; nothing generated yet
TemplateDisk ==
  [folders |-> { <<"t", "e", "m", "p", "l", "a", "t", "e", "s", "/", "f", "o", "r", "m">>, <<"t", "e", "m", "p", "l", "a", "t", "e", "s", "/", "b", "a", "r", "e">> },
   files |->
     (<<"t", "e", "m", "p", "l", "a", "t", "e", "s", "/", "f", "o", "r", "m">> :>
        << [name |-> <<"{", "{", "n", "a", "m", "e", "}", "}", ".", "t", "s">>,
            content |-> <<"c", "o", "n", "s", "t", " ", "{", "{", "N", "a", "m", "e", "}", "}", " ", "=", " ", "[", "{", "{", "b", "o", "d", "y", ":", "f", "i", "e", "l", "d", "s", "}", "}", "]", ";", " ", " ", "\n", "\n", "\n", "\n", "{", "{", " ", "b", "o", "d", "y", ":", " ", "t", "y", "p", "e", "s", " ", "}", "}", "\n">>],
           [name |-> <<"n", "o", "t", "e", "s", ".", "m", "d">>, content |-> <<"{", "{", "n", "a", "m", "e", "}", "}">>] >>)
     @@ (<<"t", "e", "m", "p", "l", "a", "t", "e", "s", "/", "b", "a", "r", "e">> :>
        << [name |-> <<"{", "{", "n", "a", "m", "e", "-", "k", "e", "b", "a", "b", "}", "}", "/", "f", "o", "r", "m", ".", "v", "u", "e">>,
            content |-> <<"<", "{", "{", "N", "a", "m", "e", "}", "}", ">", "\n", "{", "{", "b", "o", "d", "y", ":", "f", "o", "r", "m", "I", "t", "e", "m", "s", "}", "}">>] >>),
   made |-> {},
   written |-> <<>>]

\* configured names, a name that is not configured, an inherited name
TemplateNames == { <<"f", "o", "r", "m">>, <<"b", "a", "r", "e">>, <<"g", "o", "n", "e">>, <<"a", "u", "d", "i", "t">>, <<"n", "o", "p", "e">>, <<"t", "o", "S", "t", "r", "i", "n", "g">> }

\* a hook is absent, returns, throws an Error or throws null
HookKinds == {"absent", "returns", "throws", "throwsNull"}

\* no body; a body with a leaf and a group; a body whose substitution throws
GenerateBodies ==
  { [hasBody |-> FALSE, bodyObject |-> ObjectValue(<<>>)],
    [hasBody |-> TRUE,
     bodyObject |->
       ObjectValue(<< [k |-> <<"{", "{", "n", "a", "m", "e", "}", "}">>, v |-> StringValue(<<"i", "n", "p", "u", "t">>)],
                      [k |-> <<"u", "s", "e", "r", "N", "a", "m", "e">>, v |->
                         ObjectValue(<<[k |-> <<"a", "b">>, v |-> StringValue(<<"s", "e", "l", "e", "c", "t">>)]>>)] >>)],
    [hasBody |-> TRUE,
     bodyObject |-> ObjectValue(<<[k |-> <<"a", "b">>, v |-> StringValue(<<"t", "o", "S", "t", "r", "i", "n", "g">>)]>>)] }

\* the locals of generate at its entry
NewCall(templateName, moduleName, body, isDryRun, shouldFormat) ==
  [templateName |-> templateName, moduleName |-> moduleName, outputPath |-> <<>>,
   hasBody |-> body.hasBody, bodyObject |-> body.bodyObject,
   isDryRun |-> isDryRun, shouldFormat |-> shouldFormat,
   at |-> "start", template |-> InheritedProperty, finalOutputPath |-> <<>>,
   bodyReplacements |-> <<>>, files |-> <<>>,
   processedPath |-> <<>>, processedContent |-> <<>>,
   result |-> [success |-> TRUE, files |-> <<>>, errors |-> <<>>, warnings |-> <<>>]]

GenerateInit ==
  /\ bodyObject = ObjectValue(<<>>)
  /\ variableTemplates = FieldTypeMap
  /\ schemaEnabled \in BOOLEAN
  /\ replacements = EmptyReplacements
  /\ allFields = <<>>
  /\ stack = <<>>
  /\ pc = "off"
  /\ input = NoInput
  /\ output = NoOutput
  /\ cli = NoCli
  /\ earlier = <<>>
  /\ \E before \in HookKinds, after \in HookKinds :
       config = [templates |-> Templates, beforeGenerate |-> before, afterGenerate |-> after]
  /\ \E name \in TemplateNames, body \in GenerateBodies, dry \in BOOLEAN, format \in BOOLEAN :
       calls = << NewCall(name, <<"u", "s", "e", "r", "P", "r", "o", "f", "i", "l", "e">>, body, dry, format) >>
  /\ disk = TemplateDisk
  /\ trace = <<>>

GenerateSpec == GenerateInit /\ [][GenerateNext]_vars

(***************************************************************************)
(* C18: if generateBodyReplacements throws during the walk of the body,    *)
(* generate does not throw: it returns a result with success = false,      *)
(* exactly one error message and an empty list of files, and the call has  *)
(* written no file and made no folder.                                     *)
(***************************************************************************)
\* the events of call c so far
EventsOf(c) == SelectSeq(trace, LAMBDA e : e.call = c)

\* the operations call c has done so far
OpsOf(c) == {EventsOf(c)[i].op : i \in DOMAIN EventsOf(c)}

C18_BodyFailureIsCaught ==
  [][\A c \in CallIds :
       CatchBody(c) =>
         /\ calls'[c].at = "done"
         /\ calls'[c].result.success = FALSE
         /\ Len(calls'[c].result.errors) = 1
         /\ calls'[c].result.files = <<>>
         /\ \A i \in DOMAIN trace' : trace'[i].call = c => trace'[i].op # "write"
         /\ (Len(calls) = 1 => disk'.made = {} /\ DOMAIN disk'.written = {})]_vars

\* the call with a body whose substitution throws has returned, after
\* beforeGenerate was invoked
C18_Witness ==
  /\ calls[1].at = "done"
  /\ calls[1].hasBody /\ calls[1].template.hasVariables
  /\ calls[1].result.errors = << <<"t", "e", "m", "p", "l", "a", "t", "e", ".", "r", "e", "p", "l", "a", "c", "e", " ", "i", "s", " ", "n", "o", "t", " ", "a", " ", "f", "u", "n", "c", "t", "i", "o", "n">> >>
  /\ OpsOf(1) = {"beforeGenerate"}

(***************************************************************************)
(* C19: a call of generate with a template name that is not configured, or *)
(* whose template folder does not exist, does not proceed: no hook is      *)
(* invoked, no template file is read, nothing is written, and the result   *)
(* has success = false, exactly one error message and no files.            *)
(***************************************************************************)
\* the name of call c is not a key of the configuration, or the folder of
\* its template is not on disk
Unusable(c) ==
  LET name == calls[c].templateName
  IN  \/ name \notin DOMAIN config.templates
      \/ config.templates[name].path \notin disk.folders

C19_NoTemplateNoGeneration ==
  \A c \in DOMAIN calls :
    Unusable(c) =>
      /\ calls[c].at \in {"start", "path", "done"}
      /\ EventsOf(c) = <<>>
      /\ calls[c].result.files = <<>>
      /\ (Len(calls) = 1 => disk = TemplateDisk)
      /\ (calls[c].at = "done" =>
            /\ calls[c].result.success = FALSE
            /\ Len(calls[c].result.errors) = 1)

\* a call with a name that only Object.prototype has passes hasTemplate and
\* ends at the check of the path
C19_Witness ==
  /\ calls[1].templateName = <<"t", "o", "S", "t", "r", "i", "n", "g">>
  /\ calls[1].at = "done"
  /\ calls[1].result.errors = << <<"T", "e", "m", "p", "l", "a", "t", "e", " ", "p", "a", "t", "h", " ", "n", "o", "t", " ", "f", "o", "u", "n", "d", ":", " ", "u", "n", "d", "e", "f", "i", "n", "e", "d">> >>
  /\ config.beforeGenerate = "returns"

(***************************************************************************)
(* C20: when the template of the call declares needsBody and has no        *)
(* variables (no FieldTypeMap), generation does not proceed: generate      *)
(* reports a single error message, writes no file, and emits no file       *)
(* content in which a {{body:K}} placeholder is left.                      *)
(***************************************************************************)
\* the template of call c is configured with needsBody and without variables
NeedsBodyWithoutVariables(c) ==
  LET name == calls[c].templateName
  IN  /\ name \in DOMAIN config.templates
      /\ config.templates[name].needsBody
      /\ ~config.templates[name].hasVariables

C20_NeedsBodyWithoutFieldTypeMap ==
  \A c \in DOMAIN calls :
    NeedsBodyWithoutVariables(c) =>
      /\ OpsOf(c) \cap {"read", "write"} = {}
      /\ calls[c].result.files = <<>>
      /\ \A f \in DOMAIN disk.written : ~Contains(disk.written[f], <<"{", "{", "b", "o", "d", "y", ":">>)
      /\ (calls[c].at = "done" =>
            /\ calls[c].result.success = FALSE
            /\ Len(calls[c].result.errors) = 1)

(***************************************************************************)
(* A call of generate with isDryRun = false, and after it the same call    *)
(* with isDryRun = true on the same configuration and template folders.    *)
(***************************************************************************)
\* the call has returned or thrown
Ended(call) == call.at \in {"done", "rejected"}

\* the arguments of call d, as a new call with the given isDryRun
SameCall(d, isDryRun) ==
  NewCall(d.templateName, d.moduleName, [hasBody |-> d.hasBody, bodyObject |-> d.bodyObject],
          isDryRun, d.shouldFormat)

\* what is kept of an ended run: its call, its effects, the disk it left
Run == [call |-> calls[1], trace |-> trace, disk |-> disk]

\* the same call again as a dry run, once the first has ended
CallDry ==
  /\ earlier = <<>>
  /\ Len(calls) = 1
  /\ Ended(calls[1])
  /\ earlier' = <<Run>>
  /\ calls' = <<SameCall(calls[1], TRUE)>>
  /\ disk' = TemplateDisk
  /\ trace' = <<>>
  /\ UNCHANGED <<config, bodyVars, helperVars>>

DryRunNext == GenerateNext \/ CallDry

DryRunInit == GenerateInit /\ ~calls[1].isDryRun

DryRunSpec == DryRunInit /\ [][DryRunNext]_vars

\* the warnings of a result that report a skipped file
SkipWarnings(result) == SelectSeq(result.warnings, LAMBDA w : StartsWith(w, <<"S", "k", "i", "p", "p", "e", "d">>))

\* the dry run has changed nothing on disk and called no afterFileGenerate
DryRunLeavesNoTrace ==
  /\ disk = TemplateDisk
  /\ \A i \in DOMAIN trace : trace[i].op \notin {"write", "afterFileGenerate"}

\* the ended dry run and the ended run before it agree on what they report
SameReport ==
  /\ calls[1].at = earlier[1].call.at
  /\ calls[1].result.files = earlier[1].call.result.files
  /\ calls[1].result.success = earlier[1].call.result.success
  /\ SkipWarnings(calls[1].result) = SkipWarnings(earlier[1].call.result)

\* an afterFileGenerate hook has thrown in the run
FileHookThrew(run) ==
  /\ run.trace # <<>>
  /\ run.trace[Len(run.trace)].op = "afterFileGenerate"
  /\ ~run.call.result.success

MaxArgs == 4   \* arguments after "codegen"

\* parsed.options[key]: true, a string, or undefined
OptionTrue == [defined |-> TRUE, isTrue |-> TRUE, text |-> <<>>]
OptionText(text) == [defined |-> TRUE, isTrue |-> FALSE, text |-> text]
OptionUndefined == [defined |-> FALSE, isTrue |-> FALSE, text |-> <<>>]

Option(options, key) == IF key \in DOMAIN options THEN options[key] ELSE OptionUndefined

\* the value is truthy
Truthy(value) == value.isTrue \/ value.text # <<>>

\* a || b
OrElse(a, b) == IF Truthy(a) THEN a ELSE b

\* the loop of parseArgs from index i on
RECURSIVE parseFrom(_, _, _)
parseFrom(args, i, parsed) ==
  IF i > Len(args) THEN parsed
  ELSE LET arg == args[i]
           dashes == IF StartsWith(arg, <<"-", "-">>) THEN 2 ELSE IF StartsWith(arg, <<"-">>) THEN 1 ELSE 0
           takesNext == i < Len(args) /\ args[i + 1] # <<>> /\ ~StartsWith(args[i + 1], <<"-">>)
       IN  IF dashes > 0
           THEN parseFrom(args, IF takesNext THEN i + 2 ELSE i + 1,
                          [parsed EXCEPT !.options =
                             (SubSeq(arg, dashes + 1, Len(arg)) :>
                                (IF takesNext THEN OptionText(args[i + 1]) ELSE OptionTrue)) @@ @])
           ELSE IF parsed.command = <<>>
           THEN parseFrom(args, i + 1, [parsed EXCEPT !.command = arg])
           ELSE parseFrom(args, i + 1, [parsed EXCEPT !.args = Append(@, arg)])

\* parseArgs()
parseArgs(argv) == parseFrom(argv, 1, [command |-> <<>>, args |-> <<>>, options |-> <<>>])

\* const parsed = parseArgs()
ParseArgs ==
  /\ cli.at = "start"
  /\ LET parsed == parseArgs(cli.argv)
     IN  cli' = [cli EXCEPT !.at = "parsed", !.command = parsed.command,
                            !.args = parsed.args, !.options = parsed.options]
  /\ UNCHANGED <<input, output, bodyVars, callerVars>>

\* main(): help, handleGenerate or another command
Main ==
  /\ cli.at = "parsed"
  /\ cli' = [cli EXCEPT !.at =
               IF \/ cli.command = <<>>
                  \/ Truthy(Option(cli.options, <<"h", "e", "l", "p">>))
                  \/ Truthy(Option(cli.options, <<"h">>))
               THEN "help"
               ELSE IF cli.command \in { <<"g", "e", "n", "e", "r", "a", "t", "e">>, <<"g">> } THEN "handleGenerate"
               ELSE "other"]
  /\ UNCHANGED <<input, output, bodyVars, callerVars>>

\* what the user may answer to 'Enter module name: '
NameAnswers == { <<>>, <<"u", "s", "e", "r", "P", "r", "o", "f", "i", "l", "e">> }

\* the JSON text given with --body or answered to 'Enter body object
\* (JSON): ': a body, or text that JSON.parse rejects
BodyAnswers ==
  { [valid |-> TRUE, bodyObject |-> ObjectValue(<<[k |-> <<"a", "b">>, v |-> StringValue(<<"i", "n", "p", "u", "t">>)]>>)],
    [valid |-> FALSE, bodyObject |-> ObjectValue(<<>>)] }

\* handleGenerate(args), up to the call of generator.generate
HandleGenerate ==
  /\ cli.at = "handleGenerate"
  /\ \E chosen \in Range(getTemplates), named \in NameAnswers, answer \in BodyAnswers :
       LET template == IF Len(cli.args) >= 1 /\ cli.args[1] # <<>> THEN cli.args[1] ELSE chosen
           name == IF Len(cli.args) >= 2 /\ cli.args[2] # <<>> THEN cli.args[2] ELSE named
           templateConfig == templateOf(config.templates, template)
           outputPath == OrElse(OrElse(Option(cli.options, <<"o">>), Option(cli.options, <<"o", "u", "t", "p", "u", "t">>)),
                                OptionText(templateConfig.output))
           isDryRun == Option(cli.options, <<"d", "r", "y", "-", "r", "u", "n">>) = OptionTrue
           shouldFormat == Option(cli.options, <<"n", "o", "-", "f", "o", "r", "m", "a", "t">>) # OptionTrue
       IN  IF name = <<>>
           THEN cli' = [cli EXCEPT !.at = "returned"] /\ UNCHANGED calls
           ELSE IF ~hasTemplate(config.templates, template)
           THEN cli' = [cli EXCEPT !.at = "exited"] /\ UNCHANGED calls
           ELSE IF templateConfig.needsBody /\ ~answer.valid
           THEN cli' = [cli EXCEPT !.at = "exited"] /\ UNCHANGED calls
           ELSE /\ cli' = [cli EXCEPT !.at = "generate"]
                /\ calls' = << [NewCall(template, name,
                                        [hasBody |-> templateConfig.needsBody,
                                         bodyObject |-> IF templateConfig.needsBody
                                                        THEN answer.bodyObject
                                                        ELSE ObjectValue(<<>>)],
                                        isDryRun, shouldFormat)
                                  EXCEPT !.outputPath = outputPath.text] >>
  /\ UNCHANGED <<input, output, bodyVars, earlier, config, disk, trace>>

CliNext == ParseArgs \/ Main \/ HandleGenerate

\* what may stand after "codegen": commands, a template, a name, flags
ArgTokens == { <<"g", "e", "n", "e", "r", "a", "t", "e">>, <<"l", "i", "s", "t">>, <<"f", "o", "r", "m">>, <<"u", "s", "e", "r", "P", "r", "o", "f", "i", "l", "e">>, <<"-", "-", "d", "r", "y", "-", "r", "u", "n">>, <<"-", "-", "n", "o", "-", "f", "o", "r", "m", "a", "t">> }

RECURSIVE ArgVectors(_)
ArgVectors(n) ==
  IF n = 0 THEN {<<>>}
  ELSE LET shorter == ArgVectors(n - 1)
       IN  shorter \cup {Append(v, t) : v \in shorter, t \in ArgTokens}

CliInit ==
  /\ bodyObject = ObjectValue(<<>>)
  /\ variableTemplates = FieldTypeMap
  /\ schemaEnabled \in BOOLEAN
  /\ replacements = EmptyReplacements
  /\ allFields = <<>>
  /\ stack = <<>>
  /\ pc = "off"
  /\ input = NoInput
  /\ output = NoOutput
  /\ earlier = <<>>
  /\ config = [templates |-> Templates, beforeGenerate |-> "absent", afterGenerate |-> "absent"]
  /\ calls = <<>>
  /\ disk = TemplateDisk
  /\ trace = <<>>
  /\ \E argv \in ArgVectors(MaxArgs) :
       cli = [NoCli EXCEPT !.at = "start", !.argv = argv]

CliSpec == CliInit /\ [][CliNext]_vars

(***************************************************************************)
(* C22: for every argument vector of codegen generate that contains the    *)
(* flag --dry-run, at any position, generator.generate is invoked with     *)
(* isDryRun = true; and whenever --no-format is present it is invoked with *)
(* shouldFormat = false.                                                   *)
(***************************************************************************)
C22_FlagsReachGenerate ==
  cli.at = "generate" =>
    /\ <<"-", "-", "d", "r", "y", "-", "r", "u", "n">> \in Range(cli.argv) => calls[1].isDryRun
    /\ <<"-", "-", "n", "o", "-", "f", "o", "r", "m", "a", "t">> \in Range(cli.argv) => ~calls[1].shouldFormat

(***************************************************************************)
(* A call of generate run alone, and after it the same call again together *)
(* with another call on the same Generator, their steps interleaved.       *)
(***************************************************************************)
\* the calls that are run alone and then again: with a body that is
\* expanded, with a body whose expansion throws
FirstCalls ==
  { NewCall(<<"f", "o", "r", "m">>, <<"u", "s", "e", "r", "P", "r", "o", "f", "i", "l", "e">>, body, FALSE, TRUE) :
      body \in {b \in GenerateBodies : b.hasBody} }

\* the calls that are run with them: with another body and module name,
\* and a dry run of a template without variables
OtherCalls ==
  { NewCall(<<"f", "o", "r", "m">>, <<"o", "r", "d", "e", "r">>,
            [hasBody |-> TRUE,
             bodyObject |-> ObjectValue(<<[k |-> <<"u", "s", "e", "r", "N", "a", "m", "e">>, v |-> StringValue(<<"s", "e", "l", "e", "c", "t">>)]>>)],
            FALSE, FALSE),
    NewCall(<<"b", "a", "r", "e">>, <<"u", "s", "e", "r", "P", "r", "o", "f", "i", "l", "e">>, [hasBody |-> FALSE, bodyObject |-> ObjectValue(<<>>)],
            TRUE, TRUE) }

\* the same call again, and another call with it, once the first has ended
CallTogether ==
  /\ earlier = <<>>
  /\ Len(calls) = 1
  /\ Ended(calls[1])
  /\ earlier' = <<Run>>
  /\ \E other \in OtherCalls :
       calls' = <<SameCall(calls[1], calls[1].isDryRun), other>>
  /\ disk' = TemplateDisk
  /\ trace' = <<>>
  /\ UNCHANGED <<config, bodyVars, helperVars>>

ConcurrentNext == GenerateNext \/ CallTogether

ConcurrentInit ==
  /\ bodyObject = ObjectValue(<<>>)
  /\ variableTemplates = FieldTypeMap
  /\ schemaEnabled \in BOOLEAN
  /\ replacements = EmptyReplacements
  /\ allFields = <<>>
  /\ stack = <<>>
  /\ pc = "off"
  /\ input = NoInput
  /\ output = NoOutput
  /\ cli = NoCli
  /\ earlier = <<>>
  /\ config = [templates |-> Templates, beforeGenerate |-> "returns", afterGenerate |-> "absent"]
  /\ \E call \in FirstCalls : calls = <<call>>
  /\ disk = TemplateDisk
  /\ trace = <<>>

ConcurrentSpec == ConcurrentInit /\ [][ConcurrentNext]_vars

\* the events without the number of the call
Effects(events) == [i \in DOMAIN events |-> [events[i] EXCEPT !.call = 0]]

\* what Prettier did in the events
PrettierIn(events) == SelectSeq(events, LAMBDA e : e.op = "prettier")

(***************************************************************************)
(* C23: two calls of generate running concurrently on one Generator share  *)
(* no accumulator state: what a call reads, emits for each of its files    *)
(* and returns is what the same call does when run alone (Prettier doing   *)
(* to its files what it did to them in the run alone).                     *)
(***************************************************************************)
C23_ConcurrentCallsDoNotInterfere ==
  (/\ Len(calls) = 2
   /\ Ended(calls[1])
   /\ PrettierIn(Effects(EventsOf(1))) = PrettierIn(Effects(earlier[1].trace))) =>
    /\ calls[1].at = earlier[1].call.at
    /\ calls[1].result = earlier[1].call.result
    /\ calls[1].bodyReplacements = earlier[1].call.bodyReplacements
    /\ Effects(EventsOf(1)) = Effects(earlier[1].trace)

\* two calls with different bodies have both been expanded, their steps
\* interleaved: the second wrote its file between the read and the write
\* of the first
C23_Witness ==
  /\ Len(calls) = 2
  /\ calls[1].at = "done" /\ calls[2].at = "done"
  /\ calls[1].bodyReplacements # <<>>
  /\ calls[2].bodyReplacements # <<>>
  /\ calls[1].bodyReplacements # calls[2].bodyReplacements
  /\ \E i, j, k \in DOMAIN trace :
       /\ i < j /\ j < k
       /\ trace[i].call = 1 /\ trace[i].op = "read"
       /\ trace[j].call = 2 /\ trace[j].op = "write"
       /\ trace[k].call = 1 /\ trace[k].op = "write"

(***************************************************************************)
(* C24: the result of replacePlaceholders does not depend on the order of  *)
(* its seven global replacements: for every text and every module name,    *)
(* also one that holds placeholder text, applying the seven in any order   *)
(* gives the same string.                                                  *)
(***************************************************************************)
\* the seven replacements of replacePlaceholders, in the order of the code
ModuleReplacements(moduleName) ==
  << [pattern |-> <<"{", "{", "n", "a", "m", "e", "}", "}">>, value |-> moduleName],
     [pattern |-> <<"{", "{", "N", "a", "m", "e", "}", "}">>, value |-> capitalize(moduleName)],
     [pattern |-> <<"{", "{", "N", "A", "M", "E", "}", "}">>, value |-> toUpperCase(moduleName)],
     [pattern |-> <<"{", "{", "n", "a", "m", "e", "-", "k", "e", "b", "a", "b", "}", "}">>, value |-> toKebabCase(moduleName)],
     [pattern |-> <<"{", "{", "n", "a", "m", "e", "_", "s", "n", "a", "k", "e", "}", "}">>, value |-> toSnakeCase(moduleName)],
     [pattern |-> <<"{", "{", "n", "a", "m", "e", ".", "c", "a", "m", "e", "l", "}", "}">>, value |-> toCamelCase(moduleName)],
     [pattern |-> <<"{", "{", "n", "a", "m", "e", ".", "p", "a", "s", "c", "a", "l", "}", "}">>, value |-> capitalize(moduleName)] >>

\* the replacements applied to the text in the given order, from the i-th on
RECURSIVE ReplaceInOrder(_, _, _, _)
ReplaceInOrder(text, list, order, i) ==
  IF i > Len(order) THEN text
  ELSE LET replaced == replace(text, list[order[i]].pattern, list[order[i]].value)
       IN  IF replaced = text
           THEN ReplaceInOrder(text, list, order, i + 1)
           ELSE ReplaceInOrder(replaced, list, order, i + 1)

\* the orders in which the elements of a set can be taken
RECURSIVE Orders(_)
Orders(set) ==
  IF set = {} THEN {<<>>}
  ELSE UNION { { <<x>> \o rest : rest \in Orders(set \ {x}) } : x \in set }

ReplacementOrders == Orders(DOMAIN ModuleReplacements(<<>>))

C24_OrderOfReplacementsIsImmaterial ==
  (output.done /\ input.fn = "replacePlaceholders") =>
    \A order \in ReplacementOrders :
      ReplaceInOrder(input.text, ModuleReplacements(input.moduleName), order, 1) = output.text

(***************************************************************************)
(* C25: for every template file that generate emits the steps come in one  *)
(* order: module-name substitution of path and content, then expansion of  *)
(* the body placeholders, then formatting (only if shouldFormat and not a  *)
(* dry run), then the write, then the path is appended to files.  So text  *)
(* inserted from the accumulators is never given to the module-name        *)
(* substitution, and a path is in files only after its write, if any.      *)
(***************************************************************************)
\* the template file call c is working on: the one it read last
CurrentFile(c) ==
  LET reads == SelectSeq(EventsOf(c), LAMBDA e : e.op = "read")
      listed == disk.files[calls[c].template.path]
  IN  listed[CHOOSE i \in DOMAIN listed : listed[i].name = reads[Len(reads)].arg]

\* the content after the module-name substitution and the beforeFileGenerate hook
SubstitutedContent(c) ==
  LET substituted == replacePlaceholders(CurrentFile(c).content, calls[c].moduleName)
  IN  IF schemaEnabled /\ calls[c].template.beforeFileGenerate = "returns"
      THEN <<"/", "/", " ", "g", "e", "n", "e", "r", "a", "t", "e", "d", "\n">> \o substituted
      ELSE substituted

\* then after the expansion of the body placeholders
ExpandedContent(c) ==
  IF Len(calls[c].bodyReplacements) > 0
  THEN replaceBodyPlaceholders(SubstitutedContent(c), calls[c].bodyReplacements)
  ELSE SubstitutedContent(c)

\* then after formatting: as it was, or tidied
FormattedContents(c) ==
  IF calls[c].shouldFormat /\ ~calls[c].isDryRun
  THEN {ExpandedContent(c), tidy(ExpandedContent(c))}
  ELSE {ExpandedContent(c)}

\* the files call c has written
WritesOf(c) == SelectSeq(EventsOf(c), LAMBDA e : e.op = "write")

C25_StepsOfAFileInOrder ==
  \A c \in DOMAIN calls :
    /\ calls[c].at \in {"hook", "expand", "format", "write", "written", "push"} =>
         /\ calls[c].processedPath = replacePlaceholders(CurrentFile(c).name, calls[c].moduleName)
         /\ calls[c].at = "expand" => calls[c].processedContent = SubstitutedContent(c)
         /\ calls[c].at = "format" => calls[c].processedContent = ExpandedContent(c)
         /\ calls[c].at \in {"write", "written", "push"} =>
              calls[c].processedContent \in FormattedContents(c)
    /\ ~calls[c].isDryRun =>
         /\ \A i \in DOMAIN calls[c].result.files :
              /\ i <= Len(WritesOf(c))
              /\ WritesOf(c)[i].arg = pathJoin(calls[c].finalOutputPath, calls[c].result.files[i])
         /\ calls[c].at = "push" =>
              /\ Len(WritesOf(c)) = Len(calls[c].result.files) + 1
              /\ WritesOf(c)[Len(WritesOf(c))].content = calls[c].processedContent
              /\ WritesOf(c)[Len(WritesOf(c))].content \in FormattedContents(c)

\* a file has been written and listed whose content holds a module-name
\* placeholder that came in with the accumulators
C25_Witness ==
  /\ calls[1].at = "done"
  /\ calls[1].result.files = << <<"u", "s", "e", "r", "P", "r", "o", "f", "i", "l", "e", ".", "t", "s">> >>
  /\ Len(WritesOf(1)) = 1
  /\ Contains(WritesOf(1)[1].content, <<"c", "o", "n", "s", "t", " ", "U", "s", "e", "r", "P", "r", "o", "f", "i", "l", "e", " ", "=", " ", "[", "'", "{", "{", "n", "a", "m", "e", "}", "}", "'">>)
  /\ Contains(WritesOf(1)[1].content, <<" ", " ", "{", "{", "n", "a", "m", "e", "}", "}", ":", " ", "s", "t", "r", "i", "n", "g", ";">>)

(***************************************************************************)
(* C26: generate never throws, and every result it returns has success     *)
(* true exactly if errors is empty, and at most one error; a format        *)
(* failure or an ignored file adds to warnings only and leaves success.    *)
(***************************************************************************)
C26_GenerateNeverThrows ==
  \A c \in DOMAIN calls :
    /\ calls[c].at # "rejected"
    /\ calls[c].at = "done" =>
         /\ calls[c].result.success <=> calls[c].result.errors = <<>>
         /\ Len(calls[c].result.errors) <= 1
    /\ calls[c].result.errors = <<>> /\ calls[c].at # "done" => calls[c].result.success

(***************************************************************************)
(* C27: in a successful run every file under the template path is          *)
(* accounted for exactly once: its name-substituted path is in files, or,  *)
(* if it matches an ignore pattern, a skip warning for it is in warnings;  *)
(* never both, never neither.  An ignored file is never read, transformed  *)
(* or written.                                                             *)
(***************************************************************************)
\* the files under the template path of call c
TemplateFiles(c) ==
  IF calls[c].template.path \in DOMAIN disk.files
  THEN disk.files[calls[c].template.path]
  ELSE <<>>

\* the file matches an ignore pattern of the template of call c
Ignored(c, file) ==
  calls[c].template.hasIgnore /\ shouldIgnore(file.name, calls[c].template.ignore)

\* how often x is in the sequence
Occurrences(seq, x) == Cardinality({i \in DOMAIN seq : seq[i] = x})

\* the skip warning for the file
SkipWarning(file) ==
  (IF schemaEnabled THEN <<"S", "k", "i", "p", "p", "e", "d", " ", "i", "g", "n", "o", "r", "e", "d", " ", "f", "i", "l", "e", ":", " ">> ELSE <<"S", "k", "i", "p", "p", "e", "d", ":", " ">>) \o file.name

C27_EveryFileAccountedOnce ==
  \A c \in DOMAIN calls :
      \A i \in DOMAIN TemplateFiles(c) :
        LET file == TemplateFiles(c)[i]
            path == replacePlaceholders(file.name, calls[c].moduleName)
            listed == Occurrences(calls[c].result.files, path)
            warned == Occurrences(calls[c].result.warnings, SkipWarning(file))
        IN  /\ Ignored(c, file) =>
              /\ listed = 0
              /\ \A j \in DOMAIN EventsOf(c) :
                   /\ EventsOf(c)[j].op = "read" => EventsOf(c)[j].arg # file.name
                   /\ EventsOf(c)[j].op = "write" =>
                        EventsOf(c)[j].arg # pathJoin(calls[c].finalOutputPath, path)
            /\ ~Ignored(c, file) => warned = 0
            /\ (calls[c].at = "done" /\ calls[c].result.success) => listed + warned = 1

\* a run has succeeded that listed one file and skipped the other
C27_Witness ==
  /\ calls[1].at = "done"
  /\ calls[1].result.success
  /\ calls[1].isDryRun
  /\ Len(TemplateFiles(1)) = 2
  /\ calls[1].result.files = << <<"u", "s", "e", "r", "P", "r", "o", "f", "i", "l", "e", ".", "t", "s">> >>
  /\ SkipWarnings(calls[1].result) = << SkipWarning(TemplateFiles(1)[2]) >>

(***************************************************************************)
(* C28: beforeGenerate, if configured, is invoked exactly once, after the  *)
(* check of the template path and before any template file is read or any  *)
(* output written, also in a dry run; if it throws, no file is written and *)
(* the result has success = false.  afterGenerate, if configured, is       *)
(* invoked at most once, only after every file has been processed, and     *)
(* never on a run in which an earlier step failed.                         *)
(***************************************************************************)
\* the positions in the events of call c at which the operation was done
PositionsOf(c, op) == {i \in DOMAIN EventsOf(c) : EventsOf(c)[i].op = op}

\* beforeGenerate is invoked once, first of all, on an existing template path
BeforeGenerateFirst(c) ==
  /\ Cardinality(PositionsOf(c, "beforeGenerate")) <= 1
  /\ PositionsOf(c, "beforeGenerate") \subseteq {1}
  /\ PositionsOf(c, "beforeGenerate") # {} => calls[c].template.path \in disk.folders
  /\ (config.beforeGenerate # "absent" /\ calls[c].template.path \in disk.folders
        /\ calls[c].at \notin {"start", "path", "before"}) =>
       PositionsOf(c, "beforeGenerate") = {1}

\* a beforeGenerate that throws ends the call with success = false, nothing
\* read or written
BeforeGenerateThrows(c) ==
  (config.beforeGenerate \in {"throws", "throwsNull"} /\ PositionsOf(c, "beforeGenerate") # {}) =>
    /\ calls[c].at = "done"
    /\ ~calls[c].result.success
    /\ OpsOf(c) = {"beforeGenerate"}
    /\ DOMAIN disk.written = {}

\* afterGenerate is invoked at most once, last of all, when no file is left
\* and nothing has failed before
AfterGenerateLast(c) ==
  /\ Cardinality(PositionsOf(c, "afterGenerate")) <= 1
  /\ PositionsOf(c, "afterGenerate") \subseteq {Len(EventsOf(c))}
  /\ PositionsOf(c, "afterGenerate") # {} =>
       /\ calls[c].files = <<>>
       /\ Len(calls[c].result.files) + Len(SkipWarnings(calls[c].result)) = Len(TemplateFiles(c))
       /\ calls[c].result.errors \in { <<>>, << <<"a", "f", "t", "e", "r", "G", "e", "n", "e", "r", "a", "t", "e", " ", "f", "a", "i", "l", "e", "d">> >> }
  /\ (calls[c].at = "done" /\ calls[c].result.errors # <<>>
        /\ calls[c].result.errors # << <<"a", "f", "t", "e", "r", "G", "e", "n", "e", "r", "a", "t", "e", " ", "f", "a", "i", "l", "e", "d">> >>) =>
       PositionsOf(c, "afterGenerate") = {}

C28_HooksInOrder ==
  \A c \in DOMAIN calls :
    BeforeGenerateFirst(c) /\ BeforeGenerateThrows(c) /\ AfterGenerateLast(c)

(***************************************************************************)
(* C29: fullPath identifies a field: in a body object whose keys are       *)
(* unique within each group, keys that contain '.' included, no two leaf   *)
(* nodes receive the same fullPath, so that `fields` lists no entry twice. *)
(***************************************************************************)
C29_FullPathIdentifiesField ==
  \A i, j \in DOMAIN allFields : i # j => allFields[i] # allFields[j]

(***************************************************************************)
(* C30: in a body object whose keys are unique within each group, no two   *)
(* declarations of `interfaces` carry the same interface name, whether the *)
(* groups lie at different paths or are siblings, and the type name of     *)
(* every group resolves to exactly one declaration.                        *)
(***************************************************************************)
\* the number of places of str at which part begins
OccurrencesIn(str, part) ==
  Cardinality({i \in 1..(Len(str) - Len(part) + 1) : SubSeq(str, i, i + Len(part) - 1) = part})

C30_InterfaceNamesDistinct ==
  Returned =>
    \A i \in 1..Len(GroupNodes(bodyObject, FALSE)) :
      OccurrencesIn(replacements.interfaces,
                    <<"e", "x", "p", "o", "r", "t", " ", "i", "n", "t", "e", "r", "f", "a", "c", "e", " ">> \o FirstUpper(GroupNodes(bodyObject, FALSE)[i].k) \o <<" ", "{", "\n">>) = 1

====
